---- MODULE Spec2Model ----
(***************************************************************************)
(* Pali Coin: the consensus engine (src/src/blockchain.rs, with the data   *)
(* model of src/src/types.rs) and the secure peer channel                  *)
(* (src/secure_channel.rs) as state machines.                              *)
(*                                                                         *)
(* Hashes are modelled as the tuple of the fields the code feeds to        *)
(* SHA-256, so two hashes are equal exactly when the hashed fields are     *)
(* equal (collision freedom).  Symmetric keys are modelled as the secret   *)
(* they are derived from.  Transactions of the input domain carry a valid  *)
(* signature, the chain id of the node, no expiry and no data blob.        *)
(***************************************************************************)
EXTENDS Integers, Sequences, FiniteSets, TLC

VARIABLES
    chain_state,   \* Blockchain.chain_state (ChainState)
    utxo_set,      \* Blockchain.utxo_set: key -> UTXO
    mempool,       \* Blockchain.mempool (Mempool)
    db,            \* the RocksDB column families blocks, transactions, utxos, chainstate
    now,           \* the wall clock read by SystemTime::now()
    last,          \* the last call made on the Blockchain and what it returned
    pc,            \* per thread: position inside add_block / add_transaction
    channels,      \* the SecureChannel objects, one per endpoint
    wire,          \* the EncryptedMessage frames produced so far (the network may replay them)
    eph,           \* number of ephemeral keypairs drawn from OsRng so far
    chlast,        \* the last call on a secure channel, its result, and the history of the calls
    io_errors,     \* number of RocksDB writes that have returned an error so far
    orphan_blocks, \* Blockchain.orphan_blocks: the parked blocks, by hash
    net,           \* the networking state of the node: peers, limiter counters, link
    mining         \* the Miner: its flag, job, channels and the positions of its threads

chainVars == <<chain_state, utxo_set, mempool, db, now, last, pc, io_errors, orphan_blocks>>
chanVars == <<channels, wire, eph, chlast>>
vars == <<chain_state, utxo_set, mempool, db, now, last, pc, channels, wire, eph, chlast,
          io_errors, orphan_blocks, net, mining>>

(***************************************************************************)
(* Program constants                                                       *)
(***************************************************************************)
INITIAL_MINING_REWARD == 5000000
REWARD_HALVING_INTERVAL == 210000
MAX_BLOCK_SIZE == 4000000
MAX_TRANSACTIONS_PER_BLOCK == 10000
TARGET_BLOCK_TIME == 600
DIFFICULTY_ADJUSTMENT_INTERVAL == 2016
MEMPOOL_MAX_SIZE == 50000
GENESIS_TIMESTAMP == 1640995200
INITIAL_DIFFICULTY == 24
MAX_FUTURE_DRIFT == 7200
REKEY_INTERVAL == 100

(***************************************************************************)
(* Bounds of the model                                                     *)
(***************************************************************************)
MaxHeight == 2      \* blocks are appended up to this height
MaxPool == 2        \* add_transaction is explored while the mempool holds fewer entries
MaxBlockTxs == 2    \* non-coinbase transactions carried by a candidate block

(***************************************************************************)
(* Addresses, transactions, blocks (src/src/types.rs)                      *)
(***************************************************************************)
ZeroAddress == 0
Users == {1, 2}
Addresses == {ZeroAddress} \cup Users
ZeroHash == <<>>

Amounts == {3000000}
Fees == {0, 1990}
Nonces == {0}

\* Transaction::new: the transfers the wallets of Users can submit
UserTxs ==
    [from : Users, to : Users, amount : Amounts, fee : Fees, nonce : Nonces]

\* Transaction::coinbase
coinbase(to, amount, height) ==
    [from |-> ZeroAddress, to |-> to, amount |-> amount, fee |-> 0, nonce |-> height]

\* Transaction::is_coinbase
is_coinbase(tx) == tx.from = ZeroAddress

\* Transaction::hash: double SHA-256 over the fields below (the signature is excluded)
tx_hash(tx) == <<tx.from, tx.to, tx.amount, tx.fee, tx.nonce>>

\* bincode::serialize(tx).len(): a signed transfer without data is 199 bytes;
\* a coinbase carries no signature and a "Coinbase reward for block N" blob
SIGNED_TX_BYTES == 199
COINBASE_TX_BYTES == 136
\* the same with both byte vectors empty and no data: a transaction assembled field
\* by field carries its signature and public_key as the lengths of the two vectors
EMPTY_TX_BYTES == 101
tx_size(tx) ==
    IF "public_key" \in DOMAIN tx THEN EMPTY_TX_BYTES + tx.signature + tx.public_key
    ELSE IF is_coinbase(tx) THEN COINBASE_TX_BYTES ELSE SIGNED_TX_BYTES

\* Transaction::validate.  The maximum-supply check (amount > 21 * 10^12) is always
\* passed: every amount of the input domain is far below it.
tx_validate(tx) ==
    IF tx.amount = 0 /\ ~is_coinbase(tx) THEN "Transaction amount cannot be zero"
    ELSE IF tx.fee > tx.amount \div 2 /\ ~is_coinbase(tx) THEN "Transaction fee too high (>50% of amount)"
    ELSE IF tx.from = tx.to /\ ~is_coinbase(tx) THEN "Cannot send to same address"
    ELSE "ok"

RECURSIVE merkle_level(_)
\* one level of Block::calculate_merkle_root: pair adjacent hashes, duplicate an odd last one
merkle_level(hashes) ==
    IF Len(hashes) = 0 THEN <<>>
    ELSE IF Len(hashes) = 1 THEN << <<hashes[1], hashes[1]>> >>
    ELSE << <<hashes[1], hashes[2]>> >> \o merkle_level(SubSeq(hashes, 3, Len(hashes)))

RECURSIVE merkle_reduce(_)
merkle_reduce(hashes) ==
    IF Len(hashes) = 1 THEN hashes[1] ELSE merkle_reduce(merkle_level(hashes))

\* Block::calculate_merkle_root
calculate_merkle_root(txs) ==
    IF Len(txs) = 0 THEN ZeroHash
    ELSE merkle_reduce([i \in 1..Len(txs) |-> tx_hash(txs[i])])

\* Block::new
new_block(prev_hash, txs, difficulty_target, height, timestamp) ==
    [header |-> [prev_hash |-> prev_hash,
                 merkle_root |-> calculate_merkle_root(txs),
                 timestamp |-> timestamp,
                 height |-> height,
                 difficulty_target |-> difficulty_target,
                 nonce |-> 0,
                 tx_count |-> Len(txs),
                 block_size |-> 0],
     transactions |-> txs]

\* Block::hash: double SHA-256 over the header without block_size
block_hash(b) ==
    <<b.header.prev_hash, b.header.merkle_root, b.header.timestamp, b.header.height,
      b.header.difficulty_target, b.header.nonce, b.header.tx_count>>

\* The leading zero bits of a block hash.  The model's hash function gives a header
\* with nonce 0 no leading zero bit, with nonce 1 one bit less than the initial
\* difficulty, and with any other nonce exactly the initial difficulty.
leading_zero_bits(b) ==
    IF b.header.nonce = 0 THEN 0
    ELSE IF b.header.nonce = 1 THEN INITIAL_DIFFICULTY - 1
    ELSE INITIAL_DIFFICULTY

\* meets_difficulty_target
meets_difficulty_target(b, target_bits) == leading_zero_bits(b) >= target_bits

\* Block::is_valid_proof_of_work
is_valid_proof_of_work(b) == meets_difficulty_target(b, b.header.difficulty_target)

\* Block::verify_merkle_root
verify_merkle_root(b) == b.header.merkle_root = calculate_merkle_root(b.transactions)

\* Block::coinbase_transaction: the first transaction, if it is a coinbase
has_coinbase_transaction(b) ==
    Len(b.transactions) > 0 /\ is_coinbase(b.transactions[1])

RECURSIVE total_fees(_)
\* txs.iter().map(|tx| tx.fee).sum()
total_fees(txs) == IF Len(txs) = 0 THEN 0 ELSE txs[1].fee + total_fees(Tail(txs))

RECURSIVE total_size(_)
total_size(txs) == IF Len(txs) = 0 THEN 0 ELSE tx_size(txs[1]) + total_size(Tail(txs))

\* bincode::serialize(&block).len(): header, two empty options, the transaction vector
BLOCK_OVERHEAD_BYTES == 114
block_serialized_size(b) == BLOCK_OVERHEAD_BYTES + total_size(b.transactions)


RECURSIVE mine_nonce(_, _)
mine_nonce(b, n) ==
    IF meets_difficulty_target([b EXCEPT !.header.nonce = n], b.header.difficulty_target)
       \/ n >= 2   \* no nonce of the model's hash function does better
    THEN n
    ELSE mine_nonce(b, n + 1)

\* Blockchain::mine_block: raise the nonce until the hash meets the block's target
mine_block(b) == [b EXCEPT !.header.nonce = mine_nonce(b, b.header.nonce)]

(***************************************************************************)
(* UTXO index (src/src/blockchain.rs)                                      *)
(***************************************************************************)
\* format!("{}:{}", hex::encode(tx_hash), output_index)
utxo_key(txh, output_index) == <<txh, output_index>>

new_utxo(amount, address, height, cb) ==
    [amount |-> amount, address |-> address, block_height |-> height, is_coinbase |-> cb]

\* utxo_set.iter().filter(|utxo| utxo.address == address)
utxos_of(utxos, address) == {k \in DOMAIN utxos : utxos[k].address = address}

RECURSIVE sum_amounts(_, _)
sum_amounts(utxos, keys) ==
    IF keys = {} THEN 0
    ELSE LET k == CHOOSE x \in keys : TRUE
         IN utxos[k].amount + sum_amounts(utxos, keys \ {k})

\* Blockchain::get_balance
get_balance(utxos, address) == sum_amounts(utxos, utxos_of(utxos, address))

\* HashMap::insert / HashMap::remove on the key -> UTXO map
map_put(m, k, v) == [x \in DOMAIN m \cup {k} |-> IF x = k THEN v ELSE m[x]]
map_del(m, keys) == [x \in DOMAIN m \ keys |-> m[x]]

\* update_utxo_set, "Find and remove UTXOs to spend": the HashMap is iterated in an
\* unspecified order and outputs of the sender are taken while the amount
\* gathered so far is below the requirement; every prefix some order yields.
spend_choices(utxos, address, required) ==
    LET mine == utxos_of(utxos, address)
    IN {S \in SUBSET mine :
          \/ /\ sum_amounts(utxos, S) >= required
             /\ \E k \in S : sum_amounts(utxos, S \ {k}) < required
          \/ /\ S = mine
             /\ sum_amounts(utxos, mine) < required}

\* update_utxo_set, the body of the loop for one transaction, on the in-memory map
\* (mem) and the utxos column family (dbu); persist = FALSE when the put of the
\* recipient output fails.
apply_tx(st, tx, height, persist) ==
    LET h == tx_hash(tx)
        required == tx.amount + tx.fee
        recipient == new_utxo(tx.amount, tx.to, height, is_coinbase(tx))
        finish(mem, dbu) ==
            [mem |-> map_put(mem, utxo_key(h, 1), recipient),
             dbu |-> IF persist THEN map_put(dbu, utxo_key(h, 1), recipient) ELSE dbu]
    IN IF is_coinbase(tx)
       THEN {finish(st.mem, st.dbu)}
       ELSE {LET spent == sum_amounts(st.mem, S)
                 change == new_utxo(spent - required, tx.from, height, FALSE)
                 mem1 == map_del(st.mem, S)
                 dbu1 == map_del(st.dbu, S)
             IN IF spent > required
                THEN finish(map_put(mem1, utxo_key(h, 0), change),
                            map_put(dbu1, utxo_key(h, 0), change))
                ELSE finish(mem1, dbu1)
             : S \in spend_choices(st.mem, tx.from, required)}

RECURSIVE update_utxo_set(_, _, _)
\* Blockchain::update_utxo_set: every outcome of applying the transactions in order
update_utxo_set(st, txs, height) ==
    IF Len(txs) = 0 THEN {st}
    ELSE UNION {update_utxo_set(s1, Tail(txs), height) :
                  s1 \in apply_tx(st, Head(txs), height, TRUE)}


(***************************************************************************)
(* Mempool (src/src/blockchain.rs)                                         *)
(***************************************************************************)
\* Mempool::new
empty_mempool ==
    [transactions |-> <<>>, by_fee_rate |-> <<>>, by_sender |-> <<>>, size_bytes |-> 0]

insert_at(seq, pos, e) ==
    SubSeq(seq, 1, pos - 1) \o <<e>> \o SubSeq(seq, pos, Len(seq))

retain(seq, Keep(_)) == SelectSeq(seq, Keep)

\* by_fee_rate.binary_search_by(|(rate, _)| rate.cmp(&fee_rate).reverse()): the
\* index of an entry with this rate (any of them: which one is unspecified), else
\* the index that keeps the sequence sorted by descending rate.
insert_positions(by_fee_rate, fee_rate) ==
    LET matches == {i \in 1..Len(by_fee_rate) : by_fee_rate[i][1] = fee_rate}
    IN IF matches # {} THEN matches
       ELSE {1 + Cardinality({i \in 1..Len(by_fee_rate) : by_fee_rate[i][1] > fee_rate})}

\* Mempool::add_transaction: the possible results [res, mp]
mempool_add_transaction(mp, tx) ==
    LET h == tx_hash(tx)
        size == tx_size(tx)
        fee_rate == IF size > 0 THEN tx.fee \div size ELSE 0
        senders == IF tx.from \in DOMAIN mp.by_sender
                   THEN [mp.by_sender EXCEPT ![tx.from] = Append(@, h)]
                   ELSE map_put(mp.by_sender, tx.from, <<h>>)
    IN IF Cardinality(DOMAIN mp.transactions) >= MEMPOOL_MAX_SIZE
       THEN {[res |-> "Mempool full", mp |-> mp]}
       ELSE IF h \in DOMAIN mp.transactions
       THEN {[res |-> "Transaction already in mempool", mp |-> mp]}
       ELSE {[res |-> "ok",
              mp |-> [transactions |-> map_put(mp.transactions, h, tx),
                      by_fee_rate |-> insert_at(mp.by_fee_rate, pos, <<fee_rate, h>>),
                      by_sender |-> senders,
                      size_bytes |-> mp.size_bytes + size]]
             : pos \in insert_positions(mp.by_fee_rate, fee_rate)}

\* remove_transaction when the sender index is left alone: the hash stays in the list
\* of its sender
remove_transaction_keeping_sender_index(mp, h) ==
    IF h \notin DOMAIN mp.transactions THEN mp
    ELSE LET tx == mp.transactions[h]
             size == tx_size(tx)
             keepRate(e) == e[2] # h
         IN [transactions |-> map_del(mp.transactions, {h}),
             by_fee_rate |-> retain(mp.by_fee_rate, keepRate),
             by_sender |-> mp.by_sender,
             size_bytes |-> IF mp.size_bytes >= size THEN mp.size_bytes - size ELSE 0]

\* Mempool::remove_transaction
mempool_remove_transaction(mp, h) ==
    IF h \notin DOMAIN mp.transactions THEN mp
    ELSE LET tx == mp.transactions[h]
             size == tx_size(tx)
             keepRate(e) == e[2] # h
             keepHash(x) == x # h
             sender_txs == IF tx.from \in DOMAIN mp.by_sender
                           THEN retain(mp.by_sender[tx.from], keepHash)
                           ELSE <<>>
         IN [transactions |-> map_del(mp.transactions, {h}),
             by_fee_rate |-> retain(mp.by_fee_rate, keepRate),
             by_sender |-> IF tx.from \notin DOMAIN mp.by_sender THEN mp.by_sender
                           ELSE IF Len(sender_txs) = 0
                           THEN map_del(mp.by_sender, {tx.from})
                           ELSE [mp.by_sender EXCEPT ![tx.from] = sender_txs],
             size_bytes |-> IF mp.size_bytes >= size THEN mp.size_bytes - size ELSE 0]

RECURSIVE mempool_remove_all(_, _)
\* add_block_internal, "Remove mined transactions from mempool"
mempool_remove_all(mp, txs) ==
    IF Len(txs) = 0 THEN mp
    ELSE mempool_remove_all(mempool_remove_transaction(mp, tx_hash(Head(txs))), Tail(txs))

RECURSIVE take_for_block(_, _, _, _)
take_for_block(mp, entries, total, max_size) ==
    IF Len(entries) = 0 THEN <<>>
    ELSE LET h == entries[1][2]
         IN IF h \notin DOMAIN mp.transactions
            THEN take_for_block(mp, Tail(entries), total, max_size)
            ELSE LET size == tx_size(mp.transactions[h])
                 IN IF total + size <= max_size
                    THEN <<mp.transactions[h]>>
                         \o take_for_block(mp, Tail(entries), total + size, max_size)
                    ELSE <<>>

\* Mempool::get_transactions_for_block
get_transactions_for_block(mp, max_count, max_size) ==
    LET n == IF Len(mp.by_fee_rate) < max_count THEN Len(mp.by_fee_rate) ELSE max_count
    IN take_for_block(mp, SubSeq(mp.by_fee_rate, 1, n), 0, max_size)


(***************************************************************************)
(* Consensus engine (src/src/blockchain.rs)                                *)
(***************************************************************************)
\* Blockchain::calculate_block_reward
calculate_block_reward(height) ==
    LET halvings == height \div REWARD_HALVING_INTERVAL
    IN IF halvings >= 32 THEN 0 ELSE INITIAL_MINING_REWARD \div (2 ^ halvings)

\* Blockchain::calculate_work
calculate_work(difficulty) ==
    IF difficulty = 0 THEN 0 ELSE 2 ^ (IF difficulty < 127 THEN difficulty ELSE 127)

\* Blockchain::get_block: the block stored under a hash, <<>> when there is none
get_block(d, h) ==
    IF \E b \in d.blocks : block_hash(b) = h
    THEN <<CHOOSE b \in d.blocks : block_hash(b) = h>>
    ELSE <<>>

\* Blockchain::get_block_by_height
get_block_by_height(d, height) ==
    IF height \in DOMAIN d.heights THEN get_block(d, d.heights[height]) ELSE <<>>

\* Blockchain::transaction_exists
transaction_exists(d, h) == h \in d.txs

\* calculate_next_difficulty, the retarget: (ratio.ln() / 2f64.ln()) as i32 for a
\* ratio target/actual between 1/4 and 4
log2_adjustment(target_time, actual_time) ==
    IF actual_time * 4 <= target_time THEN 2
    ELSE IF actual_time * 2 <= target_time THEN 1
    ELSE IF actual_time >= target_time * 4 THEN -2
    ELSE IF actual_time >= target_time * 2 THEN -1
    ELSE 0

\* Blockchain::calculate_next_difficulty: [res, difficulty]
calculate_next_difficulty(cs, d) ==
    IF (cs.best_block_height + 1) % DIFFICULTY_ADJUSTMENT_INTERVAL # 0
    THEN [res |-> "ok", difficulty |-> cs.current_difficulty]
    ELSE LET current_height == cs.best_block_height
             start_height == IF current_height >= DIFFICULTY_ADJUSTMENT_INTERVAL - 1
                             THEN current_height - (DIFFICULTY_ADJUSTMENT_INTERVAL - 1)
                             ELSE 0
             current_block == get_block_by_height(d, current_height)
             start_block == get_block_by_height(d, start_height)
         IN IF current_block = <<>>
            THEN [res |-> "Current block not found", difficulty |-> 0]
            ELSE IF start_block = <<>>
            THEN [res |-> "Start block not found", difficulty |-> 0]
            ELSE LET actual_time == current_block[1].header.timestamp
                                    - start_block[1].header.timestamp
                     target_time == TARGET_BLOCK_TIME * DIFFICULTY_ADJUSTMENT_INTERVAL
                     proportional == cs.current_difficulty
                                     + log2_adjustment(target_time, actual_time)
                 IN [res |-> "ok",
                     difficulty |->
                        IF actual_time < target_time \div 4
                        THEN cs.current_difficulty + 1
                        ELSE IF actual_time > target_time * 4
                        THEN (IF cs.current_difficulty > 1
                              THEN cs.current_difficulty - 1 ELSE 1)
                        ELSE (IF proportional > 1 THEN proportional ELSE 1)]

\* Blockchain::validate_transaction
validate_transaction(tx, d, utxos, mp) ==
    IF tx_validate(tx) # "ok" THEN tx_validate(tx)
    ELSE IF is_coinbase(tx) THEN "ok"
    ELSE IF transaction_exists(d, tx_hash(tx))
    THEN "Transaction already exists in blockchain"
    ELSE IF utxos_of(utxos, tx.from) = {} THEN "Sender has no UTXOs"
    ELSE IF get_balance(utxos, tx.from) < tx.amount + tx.fee THEN "Insufficient balance"
    ELSE IF \E h \in DOMAIN mp.transactions :
              /\ mp.transactions[h].from = tx.from
              /\ mp.transactions[h].nonce = tx.nonce
    THEN "Double spending detected in mempool"
    ELSE "ok"

\* Blockchain::validate_block
validate_block(b, cs, d, utxos, mp, clock) ==
    IF b.header.height # cs.best_block_height + 1 THEN "Invalid block height"
    ELSE IF b.header.prev_hash # cs.best_block_hash THEN "Invalid previous block hash"
    ELSE IF b.header.timestamp > clock + MAX_FUTURE_DRIFT
    THEN "Block timestamp too far in future"
    ELSE IF ~is_valid_proof_of_work(b) THEN "Invalid proof of work"
    ELSE IF calculate_next_difficulty(cs, d).res # "ok"
    THEN calculate_next_difficulty(cs, d).res
    ELSE IF b.header.difficulty_target # calculate_next_difficulty(cs, d).difficulty
    THEN "Invalid difficulty"
    ELSE IF b.header.block_size > MAX_BLOCK_SIZE THEN "Block too large"
    ELSE IF Len(b.transactions) > MAX_TRANSACTIONS_PER_BLOCK
    THEN "Too many transactions in block"
    ELSE IF ~verify_merkle_root(b) THEN "Invalid merkle root"
    ELSE IF \E i \in 1..Len(b.transactions) :
              validate_transaction(b.transactions[i], d, utxos, mp) # "ok"
    THEN "Invalid transaction"
    ELSE IF ~has_coinbase_transaction(b) THEN "Missing coinbase transaction"
    ELSE IF b.transactions[1].amount
            # calculate_block_reward(b.header.height) + total_fees(Tail(b.transactions))
    THEN "Invalid coinbase amount"
    ELSE "ok"

\* save_block when the put of the block itself is lost: only the indexes are written
save_block_without_block(d, b, upto) ==
    [d EXCEPT !.heights = map_put(@, b.header.height, block_hash(b)),
              !.txs = IF upto >= 2
                      THEN @ \cup {tx_hash(b.transactions[i]) : i \in 1..Len(b.transactions)}
                      ELSE @]

\* Blockchain::save_block, as far as it gets: the block under its hash, the height
\* index, then the transactions; upto = 1 when the write of the first transaction fails
save_block(d, b, upto) ==
    [d EXCEPT !.blocks = @ \cup {b},
              !.heights = map_put(@, b.header.height, block_hash(b)),
              !.txs = IF upto >= 2
                      THEN @ \cup {tx_hash(b.transactions[i]) : i \in 1..Len(b.transactions)}
                      ELSE @]

RECURSIVE coinbase_amounts(_)
coinbase_amounts(txs) ==
    IF Len(txs) = 0 THEN 0
    ELSE (IF is_coinbase(txs[1]) THEN txs[1].amount ELSE 0) + coinbase_amounts(Tail(txs))

\* add_block_internal, "Update chain state"
update_chain_state(cs, b) ==
    [cs EXCEPT !.best_block_hash = block_hash(b),
               !.best_block_height = b.header.height,
               !.total_work = @ + calculate_work(b.header.difficulty_target),
               !.total_transactions = @ + Len(b.transactions),
               !.circulating_supply = @ + coinbase_amounts(b.transactions)]

\* Blockchain::save_chain_state
save_chain_state(d, cs) == [d EXCEPT !.chain_state = cs]

\* Blockchain::create_block_template
create_block_template(miner_address, cs, d, mp, clock) ==
    LET pending == get_transactions_for_block(mp, MAX_TRANSACTIONS_PER_BLOCK - 1,
                                              MAX_BLOCK_SIZE - 1000)
        amount == calculate_block_reward(cs.best_block_height + 1) + total_fees(pending)
        cb == coinbase(miner_address, amount, cs.best_block_height + 1)
    IN new_block(cs.best_block_hash, <<cb>> \o pending,
                 calculate_next_difficulty(cs, d).difficulty,
                 cs.best_block_height + 1, clock)


\* a write to RocksDB that returns an error: the step of add_block_internal it hits
DbFaults == {"none", "save_block", "save_transactions", "update_utxo_set", "save_chain_state"}

\* Blockchain::add_block_internal (is_genesis = false when validate is TRUE): every
\* outcome [res, cs, utxos, mp, d] of the call on the state (cs, utxos, mp, d);
\* fail names the database write that returns an error, if any.
add_block_internal(b, validate, fail, cs, utxos, mp, d, clock) ==
    LET verdict == IF validate THEN validate_block(b, cs, d, utxos, mp, clock) ELSE "ok"
        sized == [b EXCEPT !.header.block_size = block_serialized_size(b)]
        height == sized.header.height
        saved == save_block(d, sized, 2)
        out(res, cs1, utxos1, mp1, d1) ==
            [res |-> res, cs |-> cs1, utxos |-> utxos1, mp |-> mp1, d |-> d1]
    IN IF verdict # "ok" THEN {out(verdict, cs, utxos, mp, d)}
       ELSE IF fail = "save_block" THEN {out("db error", cs, utxos, mp, d)}
       ELSE IF fail = "save_transactions"
       THEN {out("db error", cs, utxos, mp, save_block(d, sized, 1))}
       ELSE IF fail = "update_utxo_set" /\ Len(sized.transactions) > 0
       THEN {out("db error", cs, st.mem, mp, [saved EXCEPT !.utxos = st.dbu])
             : st \in apply_tx([mem |-> utxos, dbu |-> d.utxos],
                               Head(sized.transactions), height, FALSE)}
       ELSE {LET cs1 == update_chain_state(cs, sized)
                 mp1 == mempool_remove_all(mp, sized.transactions)
                 d1 == [saved EXCEPT !.utxos = st.dbu]
             IN IF fail = "save_chain_state"
                THEN out("db error", cs1, st.mem, mp1, d1)
                ELSE out("ok", cs1, st.mem, mp1, save_chain_state(d1, cs1))
             : st \in update_utxo_set([mem |-> utxos, dbu |-> d.utxos],
                                      sized.transactions, height)}

\* Blockchain::add_transaction: the possible results [res, mp]
add_transaction(tx, d, utxos, mp) ==
    IF validate_transaction(tx, d, utxos, mp) # "ok"
    THEN {[res |-> validate_transaction(tx, d, utxos, mp), mp |-> mp]}
    ELSE mempool_add_transaction(mp, tx)

\* load_or_create_chain_state on an empty database
new_chain_state ==
    [best_block_hash |-> ZeroHash, best_block_height |-> 0, total_work |-> 0,
     total_transactions |-> 0, circulating_supply |-> 0,
     current_difficulty |-> INITIAL_DIFFICULTY]

\* the column families of a database that was just created
empty_db ==
    [blocks |-> {}, heights |-> <<>>, txs |-> {}, utxos |-> <<>>,
     chain_state |-> new_chain_state]

\* Blockchain::create_genesis_block: the mined genesis block
genesis_block ==
    mine_block(new_block(ZeroHash, <<coinbase(ZeroAddress, INITIAL_MINING_REWARD, 0)>>,
                         INITIAL_DIFFICULTY, 0, GENESIS_TIMESTAMP))

\* Blockchain::new on an empty data directory: the state after the genesis block
genesis_state ==
    CHOOSE o \in add_block_internal(genesis_block, FALSE, "none", new_chain_state,
                                    <<>>, empty_mempool, empty_db, GENESIS_TIMESTAMP) : TRUE


(***************************************************************************)
(* Calls on the Blockchain, one at a time                                  *)
(***************************************************************************)
Threads == {1, 2}
MaxIoErrors == 1    \* database writes that fail in one run

\* the transaction lists a candidate block carries after its coinbase
TxLists == UNION {[1..n -> {tx \in UserTxs : tx.from # tx.to}] : n \in 0..MaxBlockTxs}

\* what a peer may get wrong when it builds the block it submits
BlockFaults ==
    {"none", "height", "prev_hash", "timestamp", "pow", "difficulty", "merkle",
     "coinbase_amount", "no_coinbase", "extra_coinbase"}

\* Block::new and mine_block as a peer runs them on the tip it knows: a block that
\* extends the tip, correct except for the named fault
candidate_block(miner, txs, fault, cs, d, clock) ==
    LET height == cs.best_block_height + 1
        amount == calculate_block_reward(height) + total_fees(txs)
        cb == coinbase(miner, IF fault = "coinbase_amount" THEN amount + 1 ELSE amount, height)
        all == IF fault = "no_coinbase" THEN txs
               ELSE IF fault = "extra_coinbase"
               THEN <<cb, coinbase(miner, amount, height + 1)>> \o txs
               ELSE <<cb>> \o txs
        built == new_block(IF fault = "prev_hash" THEN ZeroHash ELSE cs.best_block_hash,
                           all,
                           IF fault = "difficulty" THEN INITIAL_DIFFICULTY - 1
                           ELSE calculate_next_difficulty(cs, d).difficulty,
                           IF fault = "height" THEN height + 1 ELSE height,
                           IF fault = "timestamp" THEN clock + MAX_FUTURE_DRIFT + 1 ELSE clock)
        rooted == IF fault = "merkle" THEN [built EXCEPT !.header.merkle_root = ZeroHash]
                  ELSE built
    IN IF fault = "pow" THEN rooted ELSE mine_block(rooted)

\* the node runs without its networking component
no_net == <<>>

\* no Miner has been constructed
no_mining == <<>>

\* no call has been made on a secure channel yet
no_call ==
    [end |-> 1, op |-> "none", res |-> "ok", plaintext |-> "", expected |-> "",
     failed_before |-> FALSE,
     accepted |-> [e \in {1, 2} |-> <<>>],
     failed |-> [e \in {1, 2} |-> FALSE],
     delivered |-> [e \in {1, 2} |-> 0],
     sessions |-> [e \in {1, 2} |-> 0]]

idle == [t \in Threads |-> [at |-> "idle"]]

Init ==
    /\ chain_state = genesis_state.cs
    /\ utxo_set = genesis_state.utxos
    /\ mempool = genesis_state.mp
    /\ db = genesis_state.d
    /\ now = GENESIS_TIMESTAMP + TARGET_BLOCK_TIME
    /\ last = [op |-> "new", res |-> "ok"]
    /\ pc = idle
    /\ io_errors = 0
    /\ orphan_blocks = <<>>
    /\ net = no_net
    /\ mining = no_mining
    /\ channels = [e \in {1, 2} |-> <<>>]
    /\ wire = [e \in {1, 2} |-> <<>>]
    /\ eph = 0
    /\ chlast = no_call

\* Blockchain::add_block(block) from start to return
AddBlock(b, fail) ==
    /\ chain_state.best_block_height < MaxHeight
    /\ \E o \in add_block_internal(b, TRUE, fail, chain_state, utxo_set, mempool, db, now) :
          /\ chain_state' = o.cs
          /\ utxo_set' = o.utxos
          /\ mempool' = o.mp
          /\ db' = o.d
          /\ last' = [op |-> "add_block", res |-> o.res]
    /\ fail # "none" => io_errors < MaxIoErrors
    /\ io_errors' = IF last'.res = "db error" THEN io_errors + 1 ELSE io_errors
    /\ UNCHANGED <<now, pc, chanVars, net, orphan_blocks, mining>>

\* Blockchain::add_transaction(tx) from start to return
AddTransaction(tx) ==
    /\ Cardinality(DOMAIN mempool.transactions) < MaxPool
    /\ \E o \in add_transaction(tx, db, utxo_set, mempool) :
          /\ mempool' = o.mp
          /\ last' = [op |-> "add_transaction", res |-> o.res]
    /\ UNCHANGED <<chain_state, utxo_set, db, now, pc, io_errors, chanVars, net, orphan_blocks, mining>>

\* the miner: create_block_template, mine_block, add_block, with no other call between
SubmitTemplate(miner) ==
    /\ chain_state.best_block_height < MaxHeight
    /\ LET b == mine_block(create_block_template(miner, chain_state, db, mempool, now))
       IN \E o \in add_block_internal(b, TRUE, "none", chain_state, utxo_set, mempool,
                                      db, now) :
             /\ chain_state' = o.cs
             /\ utxo_set' = o.utxos
             /\ mempool' = o.mp
             /\ db' = o.d
             /\ last' = [op |-> "submit_template", res |-> o.res]
    /\ UNCHANGED <<now, pc, io_errors, chanVars, net, orphan_blocks, mining>>

Next ==
    \/ \E miner \in Users, txs \in TxLists :
          AddBlock(candidate_block(miner, txs, "none", chain_state, db, now), "none")
    \/ \E fault \in BlockFaults :
          AddBlock(candidate_block(1, <<>>, fault, chain_state, db, now), "none")
    \/ \E tx \in UserTxs : AddTransaction(tx)
    \/ \E miner \in Users : SubmitTemplate(miner)

Spec == Init /\ [][Next]_vars

(***************************************************************************)
(* The same calls when a write to the database can fail                    *)
(***************************************************************************)
NextIo ==
    \/ \E miner \in Users, txs \in TxLists :
          /\ Len(txs) <= 1
          /\ AddBlock(candidate_block(miner, txs, "none", chain_state, db, now), "none")
    \/ \E txs \in TxLists, fail \in DbFaults \ {"none"} :
          /\ Len(txs) <= 1
          /\ AddBlock(candidate_block(1, txs, "none", chain_state, db, now), fail)
    \/ \E tx \in UserTxs : AddTransaction(tx)

SpecIo == Init /\ [][NextIo]_vars


(***************************************************************************)
(* Calls on one shared Blockchain from several threads.  The methods take  *)
(* &self and lock chain_state, utxo_set and mempool one after the other,   *)
(* each for one step only; a step below is what runs under one lock.       *)
(***************************************************************************)
at(t, label) == pc[t].at = label

goto(t, label, b) == [pc EXCEPT ![t] = [at |-> label, block |-> b]]

\* add_block_internal up to save_block: validate_block under the chain_state read
\* lock, then the block size
BeginAddBlock(t, b) ==
    /\ at(t, "idle")
    /\ chain_state.best_block_height < MaxHeight
    /\ LET verdict == validate_block(b, chain_state, db, utxo_set, mempool, now)
           sized == [b EXCEPT !.header.block_size = block_serialized_size(b)]
       IN IF verdict = "ok"
          THEN /\ pc' = goto(t, "save_block", sized)
               /\ UNCHANGED last
          ELSE /\ last' = [op |-> "add_block", res |-> verdict]
               /\ UNCHANGED pc
    /\ UNCHANGED <<chain_state, utxo_set, mempool, db, now, io_errors, chanVars, net, orphan_blocks, mining>>

\* add_block_internal: self.save_block(&block)
SaveBlock(t) ==
    /\ at(t, "save_block")
    /\ db' = save_block(db, pc[t].block, 2)
    /\ pc' = goto(t, "update_utxo_set", pc[t].block)
    /\ UNCHANGED <<chain_state, utxo_set, mempool, now, last, io_errors, chanVars, net, orphan_blocks, mining>>

\* add_block_internal: self.update_utxo_set(&block), under the utxo_set write lock
UpdateUtxoSet(t) ==
    /\ at(t, "update_utxo_set")
    /\ \E st \in update_utxo_set([mem |-> utxo_set, dbu |-> db.utxos],
                                 pc[t].block.transactions, pc[t].block.header.height) :
          /\ utxo_set' = st.mem
          /\ db' = [db EXCEPT !.utxos = st.dbu]
    /\ pc' = goto(t, "update_chain_state", pc[t].block)
    /\ UNCHANGED <<chain_state, mempool, now, last, io_errors, chanVars, net, orphan_blocks, mining>>

\* add_block_internal: "Update chain state", under the chain_state write lock
UpdateChainState(t) ==
    /\ at(t, "update_chain_state")
    /\ chain_state' = update_chain_state(chain_state, pc[t].block)
    /\ pc' = goto(t, "remove_mined", pc[t].block)
    /\ UNCHANGED <<utxo_set, mempool, db, now, last, io_errors, chanVars, net, orphan_blocks, mining>>

\* add_block_internal: "Remove mined transactions from mempool", under the mempool lock
RemoveMined(t) ==
    /\ at(t, "remove_mined")
    /\ mempool' = mempool_remove_all(mempool, pc[t].block.transactions)
    /\ pc' = goto(t, "save_chain_state", pc[t].block)
    /\ UNCHANGED <<chain_state, utxo_set, db, now, last, io_errors, chanVars, net, orphan_blocks, mining>>

\* add_block_internal: self.save_chain_state() and the return of Ok(())
SaveChainState(t) ==
    /\ at(t, "save_chain_state")
    /\ db' = save_chain_state(db, chain_state)
    /\ pc' = [pc EXCEPT ![t] = [at |-> "idle"]]
    /\ last' = [op |-> "add_block", res |-> "ok"]
    /\ UNCHANGED <<chain_state, utxo_set, mempool, now, io_errors, chanVars, net, orphan_blocks, mining>>

\* Blockchain::add_transaction: self.validate_transaction(&tx, None)
BeginAddTransaction(t, tx) ==
    /\ at(t, "idle")
    /\ Cardinality(DOMAIN mempool.transactions) < MaxPool
    /\ LET verdict == validate_transaction(tx, db, utxo_set, mempool)
       IN IF verdict = "ok"
          THEN /\ pc' = [pc EXCEPT ![t] = [at |-> "mempool_add", tx |-> tx]]
               /\ UNCHANGED last
          ELSE /\ last' = [op |-> "add_transaction", res |-> verdict]
               /\ UNCHANGED pc
    /\ UNCHANGED <<chain_state, utxo_set, mempool, db, now, io_errors, chanVars, net, orphan_blocks, mining>>

\* Blockchain::add_transaction: the mempool is locked again for mempool.add_transaction(tx)
MempoolAdd(t) ==
    /\ at(t, "mempool_add")
    /\ \E o \in mempool_add_transaction(mempool, pc[t].tx) :
          /\ mempool' = o.mp
          /\ last' = [op |-> "add_transaction", res |-> o.res]
    /\ pc' = [pc EXCEPT ![t] = [at |-> "idle"]]
    /\ UNCHANGED <<chain_state, utxo_set, db, now, io_errors, chanVars, net, orphan_blocks, mining>>

NextConc ==
    \/ \E t \in Threads, miner \in Users :
          BeginAddBlock(t, candidate_block(miner, <<>>, "none", chain_state, db, now))
    \/ \E t \in Threads : SaveBlock(t)
    \/ \E t \in Threads : UpdateUtxoSet(t)
    \/ \E t \in Threads : UpdateChainState(t)
    \/ \E t \in Threads : RemoveMined(t)
    \/ \E t \in Threads : SaveChainState(t)
    \/ \E t \in Threads, tx \in UserTxs : tx.from # tx.to /\ BeginAddTransaction(t, tx)
    \/ \E t \in Threads : MempoolAdd(t)

SpecConc == Init /\ [][NextConc]_vars


(***************************************************************************)
(* Properties of the consensus engine                                      *)
(***************************************************************************)
\* C1: for every (from, nonce) pair at most one non-coinbase transaction is accepted
\* into the chain: two non-coinbase transactions of accepted blocks (of one block or
\* of two) that have the same sender and the same nonce are the same transaction.
C1_OneTransactionPerSenderNonce ==
    \A h1, h2 \in 0..chain_state.best_block_height :
       LET b1 == get_block_by_height(db, h1)
           b2 == get_block_by_height(db, h2)
       IN (b1 # <<>> /\ b2 # <<>>) =>
             \A i \in 1..Len(b1[1].transactions), j \in 1..Len(b2[1].transactions) :
                LET t1 == b1[1].transactions[i]
                    t2 == b2[1].transactions[j]
                IN (/\ ~is_coinbase(t1)
                    /\ ~is_coinbase(t2)
                    /\ t1.from = t2.from
                    /\ t1.nonce = t2.nonce) => t1 = t2

\* C2: applying an accepted block at height h changes the total value held in the
\* UTXO index by exactly block_reward(h).
C2_BlockAddsExactlyTheReward ==
    [][(/\ last'.op \in {"add_block", "submit_template"}
        /\ last'.res = "ok"
        /\ chain_state'.best_block_height = chain_state.best_block_height + 1)
       => sum_amounts(utxo_set', DOMAIN utxo_set') - sum_amounts(utxo_set, DOMAIN utxo_set)
          = calculate_block_reward(chain_state'.best_block_height)]_vars

\* C3: whatever a reader sees while add_block runs, the ChainState and the UTXO index
\* reflect the same accepted blocks: no output of a block is visible in the UTXO
\* index (get_balance) before ChainState (get_best_block_height) includes that block.
C3_ReadersSeeWholeBlocks ==
    \A k \in DOMAIN utxo_set : utxo_set[k].block_height <= chain_state.best_block_height

\* C4: when add_block returns an error, the block store, the UTXO index in memory
\* and on disk, the ChainState and the mempool are what they were before the call.
C4_RejectedBlockLeavesNoTrace ==
    [][(last'.op = "add_block" /\ last'.res # "ok")
       => UNCHANGED <<chain_state, utxo_set, mempool, db>>]_vars

\* C5: the mempool never holds two transactions with the same sender and nonce.
C5_MempoolHasNoSenderNonceConflict ==
    \A h1, h2 \in DOMAIN mempool.transactions :
       (/\ mempool.transactions[h1].from = mempool.transactions[h2].from
        /\ mempool.transactions[h1].nonce = mempool.transactions[h2].nonce) => h1 = h2

\* C6: the block made by create_block_template for the current tip, mined and handed
\* to add_block while the tip is unchanged, is accepted.
C6_MinedTemplateIsAccepted ==
    last.op = "submit_template" => last.res = "ok"


(***************************************************************************)
(* Secure channel (src/secure_channel.rs)                                  *)
(***************************************************************************)
MaxFrames == 2      \* messages the two endpoints encrypt
MaxRekeys == 2      \* ephemeral keypairs drawn from OsRng
MaxSessions == 1    \* establish_channel calls of one manager

\* the two nodes of a link; each manager holds one channel, to the other node
Ends == {1, 2}
peer(e) == 3 - e
Messages == {"ping"}

\* secp256k1 keypairs: the long-lived identity of a node and the keypairs of rekey()
identity_key(e) == [kind |-> "identity", id |-> e]
ephemeral_key(i) == [kind |-> "ephemeral", id |-> i]

\* k256::ecdh::diffie_hellman(secret, public): the same point for (a, B) and (b, A)
diffie_hellman(secret, public) == {secret, public}

\* Hkdf::<Sha256>::new(None, secret).expand(label)
hkdf_expand(secret, label) == [ikm |-> secret, info |-> label]

\* ChaCha20Poly1305 under key and nonce
aead_encrypt(key, nonce, message) == [key |-> key, nonce |-> nonce, plaintext |-> message]
aead_opens(key, nonce, ciphertext) == ciphertext.key = key /\ ciphertext.nonce = nonce

\* HMAC-SHA256 over nonce, ciphertext and counter
hmac(key, nonce, ciphertext, counter) ==
    [key |-> key, nonce |-> nonce, ciphertext |-> ciphertext, counter |-> counter]

\* SecureChannel::new
new_channel(e) ==
    LET shared == <<diffie_hellman(identity_key(e), identity_key(peer(e)))>>
    IN [established |-> TRUE,
        shared_secret |-> shared,
        encryption_key |-> hkdf_expand(shared, "encryption"),
        mac_key |-> hkdf_expand(shared, "mac"),
        message_counter_outgoing |-> 0,
        message_counter_incoming |-> 0]

\* an address with no entry in SecureChannelManager.channels
no_channel ==
    [established |-> FALSE,
     shared_secret |-> <<>>,
     encryption_key |-> hkdf_expand(<<>>, "encryption"),
     mac_key |-> hkdf_expand(<<>>, "mac"),
     message_counter_outgoing |-> 0,
     message_counter_incoming |-> 0]

\* SecureChannel::encrypt_message: [res, frame, ch]
encrypt_message(ch, message) ==
    LET nonce_value == ch.message_counter_outgoing
        ciphertext == aead_encrypt(ch.encryption_key, nonce_value, message)
    IN [res |-> "ok",
        frame |-> [nonce |-> nonce_value,
                   ciphertext |-> ciphertext,
                   mac |-> hmac(ch.mac_key, nonce_value, ciphertext, nonce_value),
                   counter |-> nonce_value],
        ch |-> [ch EXCEPT !.message_counter_outgoing = @ + 1]]

\* decrypt_message without the comparison against message_counter_incoming
decrypt_without_replay_check(ch, frame) ==
    IF frame.mac # hmac(ch.mac_key, frame.nonce, frame.ciphertext, frame.counter)
    THEN [res |-> "MAC verification failed", plaintext |-> "", ch |-> ch]
    ELSE IF ~aead_opens(ch.encryption_key, frame.nonce, frame.ciphertext)
    THEN [res |-> "Decryption failed", plaintext |-> "", ch |-> ch]
    ELSE [res |-> "ok", plaintext |-> frame.ciphertext.plaintext,
          ch |-> [ch EXCEPT !.message_counter_incoming = frame.counter + 1]]

\* decrypt_message with the counter update moved in front of the MAC verification
decrypt_marking_first(ch, frame) ==
    LET marked == [ch EXCEPT !.message_counter_incoming = frame.counter + 1]
    IN IF frame.counter < ch.message_counter_incoming
       THEN [res |-> "Potential replay attack detected", plaintext |-> "", ch |-> ch]
       ELSE IF frame.mac # hmac(ch.mac_key, frame.nonce, frame.ciphertext, frame.counter)
       THEN [res |-> "MAC verification failed", plaintext |-> "", ch |-> marked]
       ELSE IF ~aead_opens(ch.encryption_key, frame.nonce, frame.ciphertext)
       THEN [res |-> "Decryption failed", plaintext |-> "", ch |-> marked]
       ELSE [res |-> "ok", plaintext |-> frame.ciphertext.plaintext, ch |-> marked]

\* SecureChannel::decrypt_message: [res, plaintext, ch]
decrypt_message(ch, frame) ==
    IF frame.counter < ch.message_counter_incoming
    THEN [res |-> "Potential replay attack detected", plaintext |-> "", ch |-> ch]
    ELSE IF frame.mac # hmac(ch.mac_key, frame.nonce, frame.ciphertext, frame.counter)
    THEN [res |-> "MAC verification failed", plaintext |-> "", ch |-> ch]
    ELSE IF ~aead_opens(ch.encryption_key, frame.nonce, frame.ciphertext)
    THEN [res |-> "Decryption failed", plaintext |-> "", ch |-> ch]
    ELSE [res |-> "ok", plaintext |-> frame.ciphertext.plaintext,
          ch |-> [ch EXCEPT !.message_counter_incoming = frame.counter + 1]]

\* SecureChannel::rekey of the channel e holds, with the i-th keypair OsRng yields:
\* ECDH of the fresh secret with the peer's long-lived public key, hashed together
\* with the current shared secret
rekey(ch, e, i) ==
    LET combined == Append(ch.shared_secret,
                           diffie_hellman(ephemeral_key(i), identity_key(peer(e))))
    IN [ch EXCEPT !.shared_secret = combined,
                  !.encryption_key = hkdf_expand(combined, "encryption"),
                  !.mac_key = hkdf_expand(combined, "mac")]


\* SecureChannelManager::encrypt_message on the entry ch of the map, i being the next
\* keypair of OsRng: [res, frame, ch, rekeyed]
manager_encrypt_message(ch, e, message, i) ==
    IF ~ch.established
    THEN [res |-> "No secure channel established with the peer",
          frame |-> <<>>, ch |-> ch, rekeyed |-> FALSE]
    ELSE LET due == ch.message_counter_outgoing % REKEY_INTERVAL = 0
             r == encrypt_message(IF due THEN rekey(ch, e, i) ELSE ch, message)
         IN [res |-> r.res, frame |-> r.frame, ch |-> r.ch, rekeyed |-> due]

\* SecureChannelManager::decrypt_message: [res, plaintext, ch, rekeyed]
manager_decrypt_message(ch, e, frame, i) ==
    IF ~ch.established
    THEN [res |-> "No secure channel established with the peer",
          plaintext |-> "", ch |-> ch, rekeyed |-> FALSE]
    ELSE LET due == ch.message_counter_incoming % REKEY_INTERVAL = 0
             r == decrypt_message(IF due THEN rekey(ch, e, i) ELSE ch, frame)
         IN [res |-> r.res, plaintext |-> r.plaintext, ch |-> r.ch, rekeyed |-> due]

\* the last call on a channel and what it returned (failed_before: an earlier call on
\* the same channel had returned an error; expected: the plaintext the peer sent, for
\* a frame handed over in the order of sending), with the history the properties
\* speak about: per endpoint the counters decrypted successfully so far, whether a
\* call on the current channel has returned an error, how many frames of the peer
\* were handed over in order, and how often establish_channel was called
call(e, op, res, plaintext, expected, counter) ==
    [end |-> e, op |-> op, res |-> res, plaintext |-> plaintext, expected |-> expected,
     failed_before |-> chlast.failed[e],
     accepted |-> IF op = "decrypt" /\ res = "ok"
                  THEN [chlast.accepted EXCEPT ![e] = Append(@, counter)]
                  ELSE chlast.accepted,
     failed |-> IF op = "establish" THEN [chlast.failed EXCEPT ![e] = FALSE]
                ELSE [chlast.failed EXCEPT ![e] = @ \/ res # "ok"],
     delivered |-> IF expected # "" THEN [chlast.delivered EXCEPT ![e] = @ + 1]
                   ELSE chlast.delivered,
     sessions |-> IF op = "establish" THEN [chlast.sessions EXCEPT ![e] = @ + 1]
                  ELSE chlast.sessions]

\* what the network can hand to a receiver: any frame either side has sent, as it
\* is, with its counter changed or with its ciphertext changed
frames_on_wire ==
    LET sent == UNION {{wire[e][k] : k \in 1..Len(wire[e])} : e \in Ends}
    IN sent
       \cup {[f EXCEPT !.counter = c] : f \in sent, c \in 0..MaxFrames}
       \cup {[f EXCEPT !.ciphertext.plaintext = "forged"] : f \in sent}

chainIdle ==
    /\ chain_state = genesis_state.cs
    /\ utxo_set = genesis_state.utxos
    /\ mempool = genesis_state.mp
    /\ db = genesis_state.d
    /\ now = GENESIS_TIMESTAMP + TARGET_BLOCK_TIME
    /\ last = [op |-> "new", res |-> "ok"]
    /\ pc = idle
    /\ io_errors = 0
    /\ orphan_blocks = <<>>
    /\ mining = no_mining

(***************************************************************************)
(* Two SecureChannel objects, one at each end of a link                    *)
(***************************************************************************)
InitChannel ==
    /\ chainIdle
    /\ net = no_net
    /\ channels = [e \in Ends |-> new_channel(e)]
    /\ wire = [e \in Ends |-> <<>>]
    /\ eph = 0
    /\ chlast = no_call

\* channel.encrypt_message(message); the frame goes on the wire
Encrypt(e, message) ==
    /\ Len(wire[1]) + Len(wire[2]) < MaxFrames
    /\ LET r == encrypt_message(channels[e], message)
       IN /\ channels' = [channels EXCEPT ![e] = r.ch]
          /\ wire' = [wire EXCEPT ![e] = Append(@, r.frame)]
          /\ chlast' = call(e, "encrypt", r.res, "", "", r.frame.counter)
    /\ UNCHANGED <<eph, chainVars, net, mining>>

\* channel.decrypt_message(frame) for a frame the network hands over
Decrypt(e, frame) ==
    /\ Len(chlast.accepted[e]) <= MaxFrames
    /\ LET r == decrypt_message(channels[e], frame)
       IN /\ channels' = [channels EXCEPT ![e] = r.ch]
          /\ chlast' = call(e, "decrypt", r.res, r.plaintext, "", frame.counter)
    /\ UNCHANGED <<wire, eph, chainVars, net, mining>>

\* channel.rekey()
Rekey(e) ==
    /\ eph < MaxRekeys
    /\ eph' = eph + 1
    /\ channels' = [channels EXCEPT ![e] = rekey(channels[e], e, eph + 1)]
    /\ chlast' = call(e, "rekey", "ok", "", "", 0)
    /\ UNCHANGED <<wire, chainVars, net, mining>>

NextChannel ==
    \/ \E e \in Ends, m \in Messages : Encrypt(e, m)
    \/ \E e \in Ends, f \in frames_on_wire : Decrypt(e, f)
    \/ \E e \in Ends : Rekey(e)

SpecChannel == InitChannel /\ [][NextChannel]_vars


(***************************************************************************)
(* Two SecureChannelManagers, each with the other node as its only peer    *)
(***************************************************************************)
\* SecureChannelManager::new at both nodes: no channel yet
InitManager ==
    /\ chainIdle
    /\ net = no_net
    /\ channels = [e \in Ends |-> no_channel]
    /\ wire = [e \in Ends |-> <<>>]
    /\ eph = 0
    /\ chlast = no_call

\* manager.establish_channel(peer_public_key, peer_addr): the entry is replaced
EstablishChannel(e) ==
    /\ chlast.sessions[e] < MaxSessions
    /\ channels' = [channels EXCEPT ![e] = new_channel(e)]
    /\ chlast' = call(e, "establish", "ok", "", "", 0)
    /\ UNCHANGED <<wire, eph, chainVars, net, mining>>

\* manager.encrypt_message(peer_addr, message); the frame, if any, goes on the wire
ManagerEncrypt(e, message) ==
    /\ Len(wire[1]) + Len(wire[2]) < MaxFrames
    /\ LET r == manager_encrypt_message(channels[e], e, message, eph + 1)
       IN /\ r.rekeyed => eph < MaxRekeys
          /\ eph' = IF r.rekeyed THEN eph + 1 ELSE eph
          /\ channels' = [channels EXCEPT ![e] = r.ch]
          /\ wire' = IF r.res = "ok" THEN [wire EXCEPT ![e] = Append(@, r.frame)] ELSE wire
          /\ chlast' = call(e, "encrypt", r.res, "", "", 0)
    /\ UNCHANGED <<chainVars, net, mining>>

\* manager.decrypt_message(peer_addr, frame) for the next frame of the peer, in the
\* order the peer sent them
ManagerDecryptNext(e) ==
    /\ chlast.delivered[e] < Len(wire[peer(e)])
    /\ LET frame == wire[peer(e)][chlast.delivered[e] + 1]
           r == manager_decrypt_message(channels[e], e, frame, eph + 1)
       IN /\ r.rekeyed => eph < MaxRekeys
          /\ eph' = IF r.rekeyed THEN eph + 1 ELSE eph
          /\ channels' = [channels EXCEPT ![e] = r.ch]
          /\ chlast' = call(e, "decrypt", r.res, r.plaintext, frame.ciphertext.plaintext,
                            frame.counter)
    /\ UNCHANGED <<wire, chainVars, net, mining>>

\* manager.decrypt_message(peer_addr, frame) for a frame the network replays or alters
ManagerDecrypt(e, frame) ==
    /\ Len(chlast.accepted[e]) <= MaxFrames
    /\ LET r == manager_decrypt_message(channels[e], e, frame, eph + 1)
       IN /\ r.rekeyed => eph < MaxRekeys
          /\ eph' = IF r.rekeyed THEN eph + 1 ELSE eph
          /\ channels' = [channels EXCEPT ![e] = r.ch]
          /\ chlast' = call(e, "decrypt", r.res, r.plaintext, "", frame.counter)
    /\ UNCHANGED <<wire, chainVars, net, mining>>

\* manager.close_channel(peer_addr)
CloseChannel(e) ==
    /\ channels[e].established
    /\ channels' = [channels EXCEPT ![e] = no_channel]
    /\ chlast' = call(e, "close", "ok", "", "", 0)
    /\ UNCHANGED <<wire, eph, chainVars, net, mining>>

NextManager ==
    \/ \E e \in Ends : EstablishChannel(e)
    \/ \E e \in Ends, m \in Messages : ManagerEncrypt(e, m)
    \/ \E e \in Ends : ManagerDecryptNext(e)
    \/ \E e \in Ends, f \in frames_on_wire : ManagerDecrypt(e, f)
    \/ \E e \in Ends : CloseChannel(e)

SpecManager == InitManager /\ [][NextManager]_vars

(***************************************************************************)
(* Properties of the secure channel                                        *)
(***************************************************************************)
\* C7: once a frame with counter c has been decrypted successfully on a channel,
\* no later decrypt of a frame with a counter <= c succeeds, whatever fresh,
\* replayed or altered frames arrive and however often either side rekeys: the
\* counters a channel accepts are strictly increasing.
C7_AcceptedCountersIncrease ==
    \A e \in Ends :
       \A i, j \in 1..Len(chlast.accepted[e]) :
          i < j => chlast.accepted[e][i] < chlast.accepted[e][j]

\* a frame was accepted, the channel was rekeyed, and a frame at or below the
\* accepted counter was then refused as a replay
C7_ReplayRefused ==
    /\ chlast.op = "decrypt"
    /\ chlast.res = "Potential replay attack detected"
    /\ Len(chlast.accepted[chlast.end]) > 0
    /\ Len(channels[chlast.end].shared_secret) > 1

\* C9: a decrypt that fails leaves message_counter_incoming as it was; the mark
\* moves only in a decrypt that succeeds.
C9_MarkMovesOnlyOnSuccess ==
    [][\A e \in Ends :
          channels'[e].message_counter_incoming # channels[e].message_counter_incoming
          => (chlast'.end = e /\ chlast'.op = "decrypt" /\ chlast'.res = "ok")]_vars

\* a decrypt of an altered frame with a counter above the mark has just failed the
\* MAC verification, on a channel whose mark stands at 1
C9_FailedAboveTheMark ==
    /\ chlast.op = "decrypt"
    /\ chlast.res = "MAC verification failed"
    /\ channels[chlast.end].message_counter_incoming = 1
    /\ chlast.accepted[chlast.end] = <<0>>


\* C8: between two managers that have each established the channel to the other
\* once, every message one side encrypts and the other decrypts in the order of
\* sending decrypts to the plaintext that was sent, as long as no call on the
\* receiving channel has failed and nothing but those messages was accepted.
C8_InOrderMessagesDecrypt ==
    (/\ chlast.op = "decrypt"
     /\ chlast.expected # ""
     /\ ~chlast.failed_before
     /\ chlast.sessions = [e \in Ends |-> 1]
     /\ \A e \in Ends : channels[e].established
     /\ Len(chlast.accepted[chlast.end]) <= chlast.delivered[chlast.end])
    => (chlast.res = "ok" /\ chlast.plaintext = chlast.expected)

\* C10: after a call on a channel has returned an error, every later encrypt or
\* decrypt on that channel fails.
C10_ErrorsAreTerminal ==
    (chlast.failed_before /\ chlast.op \in {"encrypt", "decrypt"}) => chlast.res # "ok"


(***************************************************************************)
(* The store: failed writes and reopening the data directory               *)
(***************************************************************************)
MaxReopens == 2     \* times the genesis block is created again on a reopen

\* Blockchain::load_or_create_chain_state: the stored record, a fresh one when the
\* chainstate column family holds none
load_or_create_chain_state(d) == d.chain_state

\* Blockchain::load_utxo_set
load_utxo_set(d) == d.utxos

\* Blockchain::new on an existing data directory: every outcome [res, cs, utxos, mp, d].
\* The genesis block is created (again) whenever the loaded height is 0.
blockchain_new(d, clock) ==
    LET cs == load_or_create_chain_state(d)
        utxos == load_utxo_set(d)
    IN IF cs.best_block_height = 0
       THEN add_block_internal(genesis_block, FALSE, "none", cs, utxos, empty_mempool,
                               d, clock)
       ELSE {[res |-> "ok", cs |-> cs, utxos |-> utxos, mp |-> empty_mempool, d |-> d]}

\* the Blockchain is dropped and Blockchain::new opens the same directory again
Reopen ==
    /\ db.chain_state.best_block_height = 0
          => db.chain_state.total_transactions <= MaxReopens
    /\ \E o \in blockchain_new(db, now) :
          /\ chain_state' = o.cs
          /\ utxo_set' = o.utxos
          /\ mempool' = o.mp
          /\ db' = o.d
    /\ last' = [op |-> "new", res |-> "ok"]
    /\ orphan_blocks' = <<>>
    /\ UNCHANGED <<now, pc, io_errors, chanVars, net, mining>>

NextStore ==
    \/ \E miner \in Users :
          AddBlock(candidate_block(miner, <<>>, "none", chain_state, db, now), "none")
    \/ \E fail \in DbFaults \ {"none"} :
          AddBlock(candidate_block(1, <<>>, "none", chain_state, db, now), fail)
    \/ \E tx \in UserTxs : AddTransaction(tx)
    \/ Reopen

SpecStore == Init /\ [][NextStore]_vars

\* C11: ChainState.best_block_hash always resolves in the block store to a block
\* whose height is ChainState.best_block_height, also after an add_block that
\* failed and after the store has been reopened.
C11_TipResolvesInStore ==
    LET tip == get_block(db, chain_state.best_block_hash)
    IN /\ tip # <<>>
       /\ tip[1].header.height = chain_state.best_block_height

\* the store was reopened after an add_block whose last write failed: the block
\* store holds a block above the tip that was loaded
C11_ReopenedBelowStoredBlock ==
    /\ last.op = "new"
    /\ io_errors > 0
    /\ \E b \in db.blocks : b.header.height > chain_state.best_block_height


(***************************************************************************)
(* Competing branches                                                      *)
(***************************************************************************)
MAX_REORG_DEPTH == 100

\* Block::new and mine_block as a peer runs them on a block it knows: a correct
\* block with only its coinbase that extends parent
child_block(parent, miner, difficulty, clock) ==
    mine_block(new_block(block_hash(parent),
                         <<coinbase(miner, calculate_block_reward(parent.header.height + 1),
                                    parent.header.height + 1)>>,
                         difficulty, parent.header.height + 1, clock))

\* the block below the tip, which every node that has the tip knows
tip_parent(cs, d) == get_block_by_height(d, cs.best_block_height - 1)[1]

\* a competing branch of two blocks rooted at the block below the tip
fork_branch(miner, cs, d, clock) ==
    LET first == child_block(tip_parent(cs, d), miner, cs.current_difficulty, clock)
    IN <<first, child_block(first, miner, cs.current_difficulty, clock)>>

RECURSIVE branch_work(_)
\* the cumulative work of a sequence of blocks
branch_work(blocks) ==
    IF Len(blocks) = 0 THEN 0
    ELSE calculate_work(Head(blocks).header.difficulty_target) + branch_work(Tail(blocks))

\* the work of the current chain above the block at height root
chain_work_above(cs, d, root) ==
    branch_work([i \in 1..(cs.best_block_height - root) |->
                    get_block_by_height(d, root + i)[1]])

\* Blockchain::handle_reorganization(new_branch): logs a warning and returns Ok
handle_reorganization(new_branch, cs, utxos, mp, d) ==
    [res |-> "ok", cs |-> cs, utxos |-> utxos, mp |-> mp, d |-> d]

\* Blockchain::add_block(block) for a block whose parent is a known block other than
\* the tip
AddForkBlock(b) ==
    /\ chain_state.best_block_height >= 1
    /\ block_hash(b) # chain_state.best_block_hash
    /\ \E o \in add_block_internal(b, TRUE, "none", chain_state, utxo_set, mempool, db, now) :
          /\ chain_state' = o.cs
          /\ utxo_set' = o.utxos
          /\ mempool' = o.mp
          /\ db' = o.d
          /\ last' = [op |-> "add_fork_block", res |-> o.res,
                      height |-> b.header.height,
                      tip_height |-> chain_state.best_block_height]
    /\ UNCHANGED <<now, pc, io_errors, chanVars, net, orphan_blocks, mining>>

\* Blockchain::handle_reorganization(new_branch) from start to return
HandleReorganization(new_branch) ==
    /\ chain_state.best_block_height >= 1
    /\ block_hash(new_branch[1]) # chain_state.best_block_hash
    /\ LET o == handle_reorganization(new_branch, chain_state, utxo_set, mempool, db)
           root == new_branch[1].header.height - 1
       IN /\ chain_state' = o.cs
          /\ utxo_set' = o.utxos
          /\ mempool' = o.mp
          /\ db' = o.d
          /\ last' = [op |-> "handle_reorganization", res |-> o.res,
                      head |-> new_branch[Len(new_branch)],
                      more_work |-> branch_work(new_branch)
                                    > chain_work_above(chain_state, db, root),
                      depth |-> chain_state.best_block_height - root]
    /\ UNCHANGED <<now, pc, io_errors, chanVars, net, orphan_blocks, mining>>

NextFork ==
    \/ \E miner \in Users :
          AddBlock(candidate_block(miner, <<>>, "none", chain_state, db, now), "none")
    \/ \E tx \in UserTxs : AddTransaction(tx)
    \/ \E miner \in Users :
          AddForkBlock(fork_branch(miner, chain_state, db, now)[1])
    \/ \E miner \in Users :
          HandleReorganization(fork_branch(miner, chain_state, db, now))

SpecFork == Init /\ [][NextFork]_vars

\* C12: add_block rejects a block whose height is at most the tip's height minus
\* MAX_REORG_DEPTH, and does not reject for its height a block above that depth
\* whose parent is a known block: such a block stays eligible as a competing branch.
C12_BlockWithinReorgDepthIsEligible ==
    last.op = "add_fork_block" =>
       IF last.height + MAX_REORG_DEPTH <= last.tip_height
       THEN last.res # "ok"
       ELSE last.res # "Invalid block height"

\* C13: when handle_reorganization is given a branch rooted within MAX_REORG_DEPTH
\* of the tip that has strictly more cumulative work than the current chain above
\* the root, the tip is the head of that branch afterwards and the UTXO index holds
\* the coinbase output of that head.
C13_HeavierBranchBecomesTheChain ==
    (/\ last.op = "handle_reorganization"
     /\ last.more_work
     /\ last.depth <= MAX_REORG_DEPTH)
    => /\ chain_state.best_block_hash = block_hash(last.head)
       /\ utxo_key(tx_hash(last.head.transactions[1]), 1) \in DOMAIN utxo_set


(***************************************************************************)
(* Orphan blocks                                                           *)
(***************************************************************************)
ORPHAN_LIMIT == 100     \* add_orphan_block: if orphans.len() >= 100
MaxOrphans == 101       \* blocks with an unknown parent that peers send

\* Blockchain::add_orphan_block: [res, orphans]
add_orphan_block(orphans, b) ==
    IF Cardinality(DOMAIN orphans) >= ORPHAN_LIMIT
    THEN [res |-> "Too many orphan blocks", orphans |-> orphans]
    ELSE [res |-> "ok", orphans |-> map_put(orphans, block_hash(b), b)]

RECURSIVE process_orphans(_, _, _)
\* the loop of process_orphan_blocks over blocks_to_process, in the order the
\* HashMap yields them (any order): add_block each, remove it from the pool on Ok
process_orphans(todo, st, clock) ==
    IF todo = {} THEN {st}
    ELSE UNION {
           UNION {process_orphans(todo \ {h},
                                  [cs |-> o.cs, utxos |-> o.utxos, mp |-> o.mp, d |-> o.d,
                                   orphans |-> IF o.res = "ok"
                                               THEN map_del(st.orphans, {h})
                                               ELSE st.orphans],
                                  clock)
                  : o \in add_block_internal(st.orphans[h], TRUE, "none", st.cs, st.utxos,
                                             st.mp, st.d, clock)}
           : h \in todo}

\* Blockchain::process_orphan_blocks(parent_hash): every outcome
\* [cs, utxos, mp, d, orphans]
process_orphan_blocks(parent_hash, orphans, cs, utxos, mp, d, clock) ==
    process_orphans({h \in DOMAIN orphans : orphans[h].header.prev_hash = parent_hash},
                    [cs |-> cs, utxos |-> utxos, mp |-> mp, d |-> d, orphans |-> orphans],
                    clock)

\* the blocks a peer has mined ahead of this node: the next block on the tip, its
\* child and its grandchild
blocks_ahead(cs, d, clock) ==
    LET next == candidate_block(1, <<>>, "none", cs, d, clock)
        child == child_block(next, 1, cs.current_difficulty, clock)
    IN <<next, child, child_block(child, 1, cs.current_difficulty, clock)>>

\* a block this node never receives
lost_block == child_block(genesis_block, 2, INITIAL_DIFFICULTY, GENESIS_TIMESTAMP + 1)

\* the k-th block a peer sends whose parent is the block never received
stray_block(k, clock) == child_block(lost_block, 2, INITIAL_DIFFICULTY, clock + k)

\* the parked blocks whose parent is the block never received
strays(orphans) ==
    {h \in DOMAIN orphans : orphans[h].header.prev_hash = block_hash(lost_block)}

\* Blockchain::add_orphan_block(block) from start to return
AddOrphanBlock(b) ==
    /\ b.header.height <= MaxHeight + 1
    /\ block_hash(b) \notin DOMAIN orphan_blocks
    /\ LET o == add_orphan_block(orphan_blocks, b)
       IN /\ orphan_blocks' = o.orphans
          /\ last' = [op |-> "add_orphan_block", res |-> o.res, hash |-> block_hash(b)]
    /\ UNCHANGED <<chain_state, utxo_set, mempool, db, now, pc, io_errors, chanVars, net, mining>>

\* Blockchain::process_orphan_blocks(parent_hash) from start to return
ProcessOrphanBlocks(parent_hash) ==
    /\ \E o \in process_orphan_blocks(parent_hash, orphan_blocks, chain_state, utxo_set,
                                      mempool, db, now) :
          /\ chain_state' = o.cs
          /\ utxo_set' = o.utxos
          /\ mempool' = o.mp
          /\ db' = o.d
          /\ orphan_blocks' = o.orphans
    /\ last' = [op |-> "process_orphan_blocks", res |-> "ok"]
    /\ UNCHANGED <<now, pc, io_errors, chanVars, net, mining>>

NextOrphans ==
    \/ AddBlock(blocks_ahead(chain_state, db, now)[1], "none")
    \/ \E i \in 2..3 : AddOrphanBlock(blocks_ahead(chain_state, db, now)[i])
    \/ \E k \in 1..MaxOrphans :
          /\ k = Cardinality(strays(orphan_blocks)) + 1
          /\ AddOrphanBlock(stray_block(k, now))
    \/ ProcessOrphanBlocks(chain_state.best_block_hash)

SpecOrphans == Init /\ [][NextOrphans]_vars

\* C14: once a block is accepted and the orphans waiting for it are processed, every
\* parked orphan that descends from it through parked orphans has been fed to
\* add_block and, if valid, accepted and removed: when process_orphan_blocks
\* returns, no parked orphan is a valid next block of the chain.
C14_OrphanDescendantsAreDrained ==
    last.op = "process_orphan_blocks" =>
       \A h \in DOMAIN orphan_blocks :
          validate_block(orphan_blocks[h], chain_state, db, utxo_set, mempool, now) # "ok"

\* C15: the orphan pool never holds more than 100 blocks, and a block parked while
\* the pool is full is admitted (the least-recently-used entry makes room for it).
C15_OrphanPoolEvictsWhenFull ==
    /\ Cardinality(DOMAIN orphan_blocks) <= ORPHAN_LIMIT
    /\ last.op = "add_orphan_block" => last.hash \in DOMAIN orphan_blocks


(***************************************************************************)
(* A wallet that submits several transactions: the mempool and the balance *)
(***************************************************************************)
\* Transaction::new: the transfers the wallet of address 1 signs with its first nonces
PoolTxs == [from : {1}, to : {2}, amount : Amounts, fee : Fees, nonce : 0..1]

NextPool ==
    \/ \E miner \in Users :
          AddBlock(candidate_block(miner, <<>>, "none", chain_state, db, now), "none")
    \/ \E miner \in Users, tx \in PoolTxs :
          AddBlock(candidate_block(miner, <<tx>>, "none", chain_state, db, now), "none")
    \/ \E tx \in PoolTxs : AddTransaction(tx)
    \/ \E miner \in Users : SubmitTemplate(miner)

SpecPool == Init /\ [][NextPool]_vars

RECURSIVE sum_required(_, _)
\* the sum of amount + fee over the mempool entries with the hashes hs
sum_required(mp, hs) ==
    IF hs = {} THEN 0
    ELSE LET h == CHOOSE x \in hs : TRUE
         IN mp.transactions[h].amount + mp.transactions[h].fee + sum_required(mp, hs \ {h})

\* the aggregate obligation of a sender: amount + fee over its mempool entries
obligation(mp, address) ==
    sum_required(mp, {h \in DOMAIN mp.transactions : mp.transactions[h].from = address})

RECURSIVE covered_in_order(_, _, _, _)
\* walking the fee-ordered entries, every transaction is covered by its sender's
\* balance less what the entries ahead of it take from the same sender
covered_in_order(mp, utxos, entries, taken) ==
    IF Len(entries) = 0 THEN TRUE
    ELSE LET tx == mp.transactions[entries[1][2]]
             required == tx.amount + tx.fee
         IN /\ get_balance(utxos, tx.from) >= taken[tx.from] + required
            /\ covered_in_order(mp, utxos, Tail(entries),
                                [taken EXCEPT ![tx.from] = @ + required])

\* C16: in every reachable state, and so right after a block has been accepted, every
\* mempool transaction taken in fee-priority order is covered by the current UTXO
\* index after deducting amount + fee of the mempool transactions ahead of it.
C16_MempoolStaysValid ==
    covered_in_order(mempool, utxo_set, mempool.by_fee_rate, [a \in Addresses |-> 0])

\* C17: an add_transaction that succeeds leaves the sender's aggregate mempool
\* obligation (the sum of amount + fee over its entries, the new one included) at
\* most its UTXO-derived balance; an add that would exceed it is rejected.
C17_ObligationWithinBalance ==
    [][(last'.op = "add_transaction" /\ last'.res = "ok")
       => \A a \in Users :
             obligation(mempool', a) # obligation(mempool, a)
             => obligation(mempool', a) <= get_balance(utxo_set', a)]_vars


\* C18: the fee-ordered sequence of the mempool is sorted by fee rate, highest first,
\* and a transaction that is added comes after every entry of the same fee rate that
\* was there before it, so that get_transactions_for_block takes equal-rate
\* transactions in the order of their insertion.
C18_FeeOrderWithTiesByArrival ==
    [][LET entries == mempool'.by_fee_rate
       IN /\ \A i, j \in 1..Len(entries) : i < j => entries[i][1] >= entries[j][1]
          /\ (last'.op = "add_transaction" /\ last'.res = "ok")
             => \A i, j \in 1..Len(entries) :
                   (/\ entries[i][2] \notin DOMAIN mempool.transactions
                    /\ entries[j][2] \in DOMAIN mempool.transactions
                    /\ entries[j][1] = entries[i][1]) => j < i]_vars

(***************************************************************************)
(* Coinbase outputs and coinbase transactions                              *)
(***************************************************************************)
COINBASE_MATURITY == 100

\* what an address can spend at the given tip without touching a coinbase output
\* that has fewer than COINBASE_MATURITY confirmations (tip - block_height + 1)
mature_balance(utxos, address, tip_height) ==
    sum_amounts(utxos, {k \in utxos_of(utxos, address) :
                           utxos[k].is_coinbase
                           => tip_height - utxos[k].block_height + 1 >= COINBASE_MATURITY})

\* C19: no transaction of an accepted block consumes a coinbase output that has
\* fewer than 100 confirmations, and no transaction is admitted to the mempool that
\* its sender can only pay with such an output.
C19_CoinbaseSpentOnlyWhenMature ==
    [][/\ (last'.op \in {"add_block", "submit_template"} /\ last'.res = "ok")
          => \A k \in DOMAIN utxo_set \ DOMAIN utxo_set' :
                utxo_set[k].is_coinbase
                => chain_state.best_block_height - utxo_set[k].block_height + 1
                   >= COINBASE_MATURITY
       /\ (last'.op = "add_transaction" /\ last'.res = "ok")
          => \A h \in DOMAIN mempool'.transactions \ DOMAIN mempool.transactions :
                LET tx == mempool'.transactions[h]
                IN mature_balance(utxo_set, tx.from, chain_state.best_block_height)
                   >= tx.amount + tx.fee]_vars

\* C20: every accepted block has exactly one coinbase transaction, at index 0: its
\* first transaction is a coinbase and no other transaction of it has the coinbase
\* form (from = the zero address).
C20_CoinbaseOnlyAtIndexZero ==
    \A h \in 0..chain_state.best_block_height :
       LET b == get_block_by_height(db, h)
       IN b # <<>> =>
             /\ Len(b[1].transactions) >= 1
             /\ is_coinbase(b[1].transactions[1])
             /\ \A i \in 2..Len(b[1].transactions) : ~is_coinbase(b[1].transactions[i])

(***************************************************************************)
(* Block timestamps: peers choose the timestamp of the block they submit   *)
(***************************************************************************)
\* BlockHeader.timestamp as a peer may set it: before the genesis block, equal to
\* it, and the time of the node's clock
Timestamps == {GENESIS_TIMESTAMP - 1, GENESIS_TIMESTAMP, GENESIS_TIMESTAMP + TARGET_BLOCK_TIME}

\* the timestamp of the block stored at a height (the height must be stored)
timestamp_at(d, height) == get_block_by_height(d, height)[1].header.timestamp

NextTime ==
    \/ \E miner \in Users, timestamp \in Timestamps :
          AddBlock(candidate_block(miner, <<>>, "none", chain_state, db, timestamp), "none")
    \/ \E tx \in UserTxs : AddTransaction(tx)

SpecTime == Init /\ [][NextTime]_vars

\* C21: every block of the chain above the genesis block has a timestamp strictly
\* greater than the timestamp of the block below it.
C21_TimestampAfterParent ==
    \A h \in 1..chain_state.best_block_height :
       (get_block_by_height(db, h) # <<>> /\ get_block_by_height(db, h - 1) # <<>>)
       => timestamp_at(db, h) > timestamp_at(db, h - 1)

(***************************************************************************)
(* The difficulty retarget.  calculate_next_difficulty reads the height    *)
(* and current_difficulty of the chain state and, at a retarget, the       *)
(* blocks stored at the two ends of the window; add_block reads nothing    *)
(* else of the chain below the tip when the blocks carry only a coinbase.  *)
(* The chain is taken up two blocks below the first retarget: the store    *)
(* holds the genesis block (the start of the window) and the tip, and the  *)
(* totals of the chain state count from the tip.                           *)
(***************************************************************************)
RetargetTip == DIFFICULTY_ADJUSTMENT_INTERVAL - 2
RetargetBlocks == 3    \* blocks appended above RetargetTip

\* the block at RetargetTip, mined on schedule; the hash of its parent is not tracked
retarget_tip_block ==
    mine_block(new_block(<<ZeroHash, ZeroHash, 0, RetargetTip - 1, INITIAL_DIFFICULTY, 2, 1>>,
                         <<coinbase(1, calculate_block_reward(RetargetTip), RetargetTip)>>,
                         INITIAL_DIFFICULTY, RetargetTip,
                         GENESIS_TIMESTAMP + RetargetTip * TARGET_BLOCK_TIME))

\* the state of a node whose best block is retarget_tip_block
retarget_tip_state ==
    LET tip == [retarget_tip_block EXCEPT
                   !.header.block_size = block_serialized_size(retarget_tip_block)]
        cs == [new_chain_state EXCEPT !.best_block_hash = block_hash(tip),
                                      !.best_block_height = RetargetTip]
        d == save_block(genesis_state.d, tip, 2)
    IN [cs |-> cs, utxos |-> genesis_state.utxos, mp |-> empty_mempool,
        d |-> save_chain_state(d, cs)]

\* the time the retarget window may have taken when its last block is mined: the
\* target time, twice the target time, and more than four times the target time
WindowTimes ==
    {TARGET_BLOCK_TIME * DIFFICULTY_ADJUSTMENT_INTERVAL,
     2 * TARGET_BLOCK_TIME * DIFFICULTY_ADJUSTMENT_INTERVAL,
     4 * TARGET_BLOCK_TIME * DIFFICULTY_ADJUSTMENT_INTERVAL + 1}

InitRetarget ==
    /\ chain_state = retarget_tip_state.cs
    /\ utxo_set = retarget_tip_state.utxos
    /\ mempool = retarget_tip_state.mp
    /\ db = retarget_tip_state.d
    /\ now = GENESIS_TIMESTAMP + 4 * TARGET_BLOCK_TIME * DIFFICULTY_ADJUSTMENT_INTERVAL + 1
    /\ last = [op |-> "new", res |-> "ok"]
    /\ pc = idle
    /\ io_errors = 0
    /\ orphan_blocks = <<>>
    /\ net = no_net
    /\ mining = no_mining
    /\ channels = [e \in {1, 2} |-> <<>>]
    /\ wire = [e \in {1, 2} |-> <<>>]
    /\ eph = 0
    /\ chlast = no_call

\* Blockchain::add_block(block) near the first retarget
AddBlockAtRetarget(b) ==
    /\ chain_state.best_block_height < RetargetTip + RetargetBlocks
    /\ \E o \in add_block_internal(b, TRUE, "none", chain_state, utxo_set, mempool, db, now) :
          /\ chain_state' = o.cs
          /\ utxo_set' = o.utxos
          /\ mempool' = o.mp
          /\ db' = o.d
          /\ last' = [op |-> "add_block", res |-> o.res]
    /\ UNCHANGED <<now, pc, io_errors, chanVars, net, orphan_blocks, mining>>

\* a block built by a peer that keeps the difficulty of the tip block it extends
retained_difficulty_block(miner, cs, d, clock) ==
    LET height == cs.best_block_height + 1
        tip == get_block_by_height(d, cs.best_block_height)[1]
    IN mine_block(new_block(cs.best_block_hash,
                            <<coinbase(miner, calculate_block_reward(height), height)>>,
                            tip.header.difficulty_target, height, clock))

NextRetarget ==
    \/ \E miner \in Users, t \in WindowTimes :
          AddBlockAtRetarget(candidate_block(miner, <<>>, "none", chain_state, db,
                                             GENESIS_TIMESTAMP + t))
    \/ \E miner \in Users, t \in WindowTimes :
          AddBlockAtRetarget(retained_difficulty_block(miner, chain_state, db,
                                                       GENESIS_TIMESTAMP + t))

SpecRetarget == InitRetarget /\ [][NextRetarget]_vars

\* the difficulty the chain required of the block stored at a height
difficulty_at(d, height) == get_block_by_height(d, height)[1].header.difficulty_target

\* C22: the difficulty required of a block differs from the difficulty required of
\* its parent only at heights that are multiples of DIFFICULTY_ADJUSTMENT_INTERVAL:
\* a retarget value stays the required difficulty until the next retarget.
C22_DifficultyChangesOnlyAtRetarget ==
    \A h \in DOMAIN db.heights :
       (h - 1 \in DOMAIN db.heights /\ h % DIFFICULTY_ADJUSTMENT_INTERVAL # 0)
       => difficulty_at(db, h) = difficulty_at(db, h - 1)

(***************************************************************************)
(* The P2P manager (src/src/p2p.rs): the peer table, the address manager   *)
(* and the connection manager's clean-up pass.  The wall clock does not    *)
(* advance here, so no peer turns stale and no ban expires.                *)
(***************************************************************************)
BAN_SCORE_LIMIT == 100
MaxBanScore == 120    \* increase_ban_score is explored while the score is below this

\* the socket addresses of the remote nodes
Addrs == {1, 2}
\* the points one report of misbehaviour adds
BanPoints == {20, 50}

\* PeerInfo::new, with the state the handshake leaves
new_peer_info(addr, is_outbound) ==
    [addr |-> addr, ban_score |-> 0, is_outbound |-> is_outbound,
     state |-> "Active", relay_transactions |-> TRUE]

\* PeerInfo::should_be_banned
should_be_banned(peer_info) == peer_info.ban_score >= BAN_SCORE_LIMIT

\* AddressManager::is_banned
is_banned(banned_addresses, addr, clock) ==
    addr \in DOMAIN banned_addresses /\ clock < banned_addresses[addr]

\* evicted: the addresses whose peer the clean-up pass removed for its ban score;
\* relayed: the messages the relay task has sent, each with the peer it came from
InitPeers ==
    /\ chainIdle
    /\ channels = [e \in {1, 2} |-> <<>>]
    /\ wire = [e \in {1, 2} |-> <<>>]
    /\ eph = 0
    /\ chlast = no_call
    /\ net = [peers |-> <<>>, banned_addresses |-> <<>>, evicted |-> {}, relayed |-> {}]

\* start_listener and handle_incoming_connection for one accepted socket; allowed is
\* the answer of security_manager.check_connection, which src/src/security.rs does
\* not define (SecurityManager keeps request and connection counters only)
HandleIncomingConnection(addr, allowed) ==
    /\ net' = IF allowed
              THEN [net EXCEPT !.peers = map_put(@, addr, new_peer_info(addr, FALSE))]
              ELSE net
    /\ last' = [op |-> "handle_incoming_connection", res |-> IF allowed THEN "ok" ELSE "refused"]
    /\ UNCHANGED <<chain_state, utxo_set, mempool, db, now, pc, io_errors, orphan_blocks, chanVars, mining>>

\* the connection manager: get_addresses_to_try skips banned addresses, connect_to_peer
\* returns early for a connected address and asks check_connection
ConnectToPeer(addr, allowed) ==
    /\ ~is_banned(net.banned_addresses, addr, now)
    /\ net' = IF addr \notin DOMAIN net.peers /\ allowed
              THEN [net EXCEPT !.peers = map_put(@, addr, new_peer_info(addr, TRUE))]
              ELSE net
    /\ last' = [op |-> "connect_to_peer",
                res |-> IF addr \in DOMAIN net.peers THEN "connected"
                        ELSE IF allowed THEN "ok" ELSE "refused"]
    /\ UNCHANGED <<chain_state, utxo_set, mempool, db, now, pc, io_errors, orphan_blocks, chanVars, mining>>

\* PeerInfo::increase_ban_score on the entry of a connected peer
IncreaseBanScore(addr, points) ==
    /\ addr \in DOMAIN net.peers
    /\ net.peers[addr].ban_score < MaxBanScore
    /\ net' = [net EXCEPT !.peers[addr].ban_score = @ + points]
    /\ last' = [op |-> "increase_ban_score", res |-> "ok"]
    /\ UNCHANGED <<chain_state, utxo_set, mempool, db, now, pc, io_errors, orphan_blocks, chanVars, mining>>

\* cleanup_stale_connections: the peers that should be banned leave the peer table
\* and the connection table
CleanupStaleConnections ==
    /\ LET stale_peers == {addr \in DOMAIN net.peers : should_be_banned(net.peers[addr])}
       IN net' = [net EXCEPT !.peers = map_del(@, stale_peers),
                             !.evicted = @ \cup stale_peers]
    /\ last' = [op |-> "cleanup_stale_connections", res |-> "ok"]
    /\ UNCHANGED <<chain_state, utxo_set, mempool, db, now, pc, io_errors, orphan_blocks, chanVars, mining>>

NextPeers ==
    \/ \E addr \in Addrs, allowed \in BOOLEAN : HandleIncomingConnection(addr, allowed)
    \/ \E addr \in Addrs, allowed \in BOOLEAN : ConnectToPeer(addr, allowed)
    \/ \E addr \in Addrs, points \in BanPoints : IncreaseBanScore(addr, points)
    \/ CleanupStaleConnections

SpecPeers == InitPeers /\ [][NextPeers]_vars

relay_message_to_peers(peers, banned) ==
    {addr \in DOMAIN peers :
        /\ peers[addr].state = "Active"
        /\ peers[addr].relay_transactions
        /\ addr \notin banned}

\* the relay task has sent a message that came from origin to the peers in targets
relay_from(origin, targets) ==
    [net EXCEPT !.relayed = @ \cup {[to |-> addr, origin |-> origin] : addr \in targets}]

\* handle_network_message(NewBlock { block }) for a message of peer origin
ReceiveNewBlock(origin, b, banned) ==
    /\ origin \in DOMAIN net.peers
    /\ chain_state.best_block_height < MaxHeight
    /\ \E o \in add_block_internal(b, TRUE, "none", chain_state, utxo_set, mempool, db, now) :
          /\ chain_state' = o.cs
          /\ utxo_set' = o.utxos
          /\ mempool' = o.mp
          /\ db' = o.d
          /\ last' = [op |-> "new_block", res |-> o.res]
          /\ net' = IF o.res = "ok"
                    THEN relay_from(origin, relay_message_to_peers(net.peers, banned))
                    ELSE net
    /\ UNCHANGED <<now, pc, io_errors, orphan_blocks, chanVars, mining>>

\* handle_network_message(NewTransaction { transaction }) for a message of peer origin
ReceiveNewTransaction(origin, tx, banned) ==
    /\ origin \in DOMAIN net.peers
    /\ Cardinality(DOMAIN mempool.transactions) < MaxPool
    /\ \E o \in add_transaction(tx, db, utxo_set, mempool) :
          /\ mempool' = o.mp
          /\ last' = [op |-> "new_transaction", res |-> o.res]
          /\ net' = IF o.res = "ok"
                    THEN relay_from(origin, relay_message_to_peers(net.peers, banned))
                    ELSE net
    /\ UNCHANGED <<chain_state, utxo_set, db, now, pc, io_errors, orphan_blocks, chanVars, mining>>

NextRelay ==
    \/ \E addr \in Addrs : HandleIncomingConnection(addr, TRUE)
    \/ \E origin \in Addrs, miner \in Users, banned \in SUBSET Addrs :
          ReceiveNewBlock(origin, candidate_block(miner, <<>>, "none", chain_state, db, now),
                          banned)
    \/ \E origin \in Addrs, tx \in UserTxs, banned \in SUBSET Addrs :
          ReceiveNewTransaction(origin, tx, banned)

SpecRelay == InitPeers /\ [][NextRelay]_vars

rate_limit_window_seconds == 60
max_connections_per_ip == 3
RequestLimit == 3     \* SecurityManagerConfig.max_requests_per_window of the node
MaxTicks == 3         \* times the clock advances
MaxRequests == 5      \* requests counted for one IP in one window

\* the amounts by which the clock advances between two messages
TickSteps == {1, rate_limit_window_seconds}

\* SecurityManager::new
new_security_manager == [rate_limits |-> <<>>, connections |-> <<>>]

\* SecurityManager::validate_message: [res, sm]
validate_message(sm, ip, clock) ==
    LET entry == IF ip \in DOMAIN sm.rate_limits THEN sm.rate_limits[ip]
                 ELSE [count |-> 0, since |-> clock]
        current == IF clock - entry.since > rate_limit_window_seconds
                   THEN [count |-> 0, since |-> clock] ELSE entry
        counted == [current EXCEPT !.count = @ + 1]
        sm1 == [sm EXCEPT !.rate_limits = map_put(@, ip, counted)]
    IN IF counted.count > RequestLimit
       THEN [res |-> "Rate limit exceeded", sm |-> sm1]
       ELSE IF ip \in DOMAIN sm.connections /\ sm.connections[ip] >= max_connections_per_ip
       THEN [res |-> "Too many connections", sm |-> sm1]
       ELSE [res |-> "ok", sm |-> sm1]

\* accepted: for each IP, the times of its requests that were accepted during the
\* last 60 seconds (after the current time minus 60)
InitRate ==
    /\ chainIdle
    /\ channels = [e \in {1, 2} |-> <<>>]
    /\ wire = [e \in {1, 2} |-> <<>>]
    /\ eph = 0
    /\ chlast = no_call
    /\ net = [sm |-> new_security_manager, accepted |-> [ip \in Addrs |-> <<>>], ticks |-> 0]

\* a message of the peer at ip arrives and is passed to validate_message
ValidateMessage(ip) ==
    /\ ip \in DOMAIN net.sm.rate_limits => net.sm.rate_limits[ip].count < MaxRequests
    /\ LET o == validate_message(net.sm, ip, now)
       IN /\ net' = [net EXCEPT !.sm = o.sm,
                                !.accepted[ip] = IF o.res = "ok" THEN Append(@, now) ELSE @]
          /\ last' = [op |-> "validate_message", res |-> o.res]
    /\ UNCHANGED <<chain_state, utxo_set, mempool, db, now, pc, io_errors, orphan_blocks, chanVars, mining>>

\* the clock advances
Tick(step) ==
    /\ net.ticks < MaxTicks
    /\ now' = now + step
    /\ net' = [net EXCEPT !.ticks = @ + 1,
                          !.accepted = [ip \in Addrs |->
                                           SelectSeq(net.accepted[ip],
                                                     LAMBDA t : now' - t < rate_limit_window_seconds)]]
    /\ last' = [op |-> "tick", res |-> "ok"]
    /\ UNCHANGED <<chain_state, utxo_set, mempool, db, pc, io_errors, orphan_blocks, chanVars, mining>>

NextRate ==
    \/ \E ip \in Addrs : ValidateMessage(ip)
    \/ \E step \in TickSteps : Tick(step)

SpecRate == InitRate /\ [][NextRate]_vars

\* C25: for every peer, the requests accepted from it in any 60 consecutive seconds
\* are at most the configured limit of requests per minute.
C25_AcceptedWithinLimitPerMinute ==
    \A ip \in Addrs : Len(net.accepted[ip]) <= RequestLimit

(***************************************************************************)
(* ConnectionSecurityManager (src/src/network.rs): connection attempts run *)
(* as concurrent tasks; each calls check_connection_allowed and then       *)
(* register_connection, and unregister_connection when the link closes.    *)
(* No IP is banned, and every IP lies in a subnet of its own.              *)
(***************************************************************************)
MaxViolations == 2    \* refused attempts recorded against one IP

\* the connection attempts; attempt t uses the socket address <<ip, t>>
Conns == 1..4

\* ConnectionSecurityManager::new
new_connection_security_manager ==
    [active_connections |-> {}, ip_connection_count |-> <<>>, reputation_scores |-> <<>>]

\* the counter of an IP in a DashMap, 0 when there is no entry
counter_of(counters, ip) == IF ip \in DOMAIN counters THEN counters[ip] ELSE 0

\* ConnectionSecurityManager::check_connection_allowed: [res, csm]; a refusal for
\* the connection limit records a ConnectionFlood violation of severity Medium (5)
check_connection_allowed(csm, ip) ==
    IF counter_of(csm.ip_connection_count, ip) >= max_connections_per_ip
    THEN [res |-> "IP connection limit exceeded",
          csm |-> [csm EXCEPT !.reputation_scores =
                                 map_put(@, ip, counter_of(@, ip) - 5)]]
    ELSE IF counter_of(csm.reputation_scores, ip) < -50
    THEN [res |-> "IP reputation too low", csm |-> csm]
    ELSE [res |-> "ok", csm |-> csm]

\* ConnectionSecurityManager::register_connection
register_connection(csm, addr) ==
    [csm EXCEPT !.ip_connection_count = map_put(@, addr[1], counter_of(@, addr[1]) + 1),
                !.active_connections = @ \cup {addr}]

\* ConnectionSecurityManager::unregister_connection
unregister_connection(csm, addr) ==
    [csm EXCEPT !.active_connections = @ \ {addr},
                !.ip_connection_count =
                    IF addr[1] \notin DOMAIN @ THEN @
                    ELSE IF @[addr[1]] <= 1 THEN map_del(@, {addr[1]})
                    ELSE map_put(@, addr[1], @[addr[1]] - 1)]

InitConns ==
    /\ chainIdle
    /\ channels = [e \in {1, 2} |-> <<>>]
    /\ wire = [e \in {1, 2} |-> <<>>]
    /\ eph = 0
    /\ chlast = no_call
    /\ net = [csm |-> new_connection_security_manager,
              tasks |-> [t \in Conns |-> [at |-> "idle", ip |-> 0]]]

\* task t: check_connection_allowed(addr) for a connection from ip
CheckConnectionAllowed(t, ip) ==
    /\ net.tasks[t].at = "idle"
    /\ counter_of(net.csm.reputation_scores, ip) > -5 * MaxViolations
    /\ LET o == check_connection_allowed(net.csm, ip)
       IN /\ net' = [net EXCEPT !.csm = o.csm,
                                !.tasks[t] = IF o.res = "ok"
                                             THEN [at |-> "allowed", ip |-> ip] ELSE @]
          /\ last' = [op |-> "check_connection_allowed", res |-> o.res]
    /\ UNCHANGED <<chain_state, utxo_set, mempool, db, now, pc, io_errors, orphan_blocks, chanVars, mining>>

\* task t: register_connection(addr), the connection is open
RegisterConnection(t) ==
    /\ net.tasks[t].at = "allowed"
    /\ net' = [net EXCEPT !.csm = register_connection(@, <<net.tasks[t].ip, t>>),
                          !.tasks[t].at = "open"]
    /\ last' = [op |-> "register_connection", res |-> "ok"]
    /\ UNCHANGED <<chain_state, utxo_set, mempool, db, now, pc, io_errors, orphan_blocks, chanVars, mining>>

\* task t: the link closes, unregister_connection(addr)
UnregisterConnection(t) ==
    /\ net.tasks[t].at = "open"
    /\ net' = [net EXCEPT !.csm = unregister_connection(@, <<net.tasks[t].ip, t>>),
                          !.tasks[t] = [at |-> "idle", ip |-> 0]]
    /\ last' = [op |-> "unregister_connection", res |-> "ok"]
    /\ UNCHANGED <<chain_state, utxo_set, mempool, db, now, pc, io_errors, orphan_blocks, chanVars, mining>>

NextConns ==
    \/ \E t \in Conns, ip \in Addrs : CheckConnectionAllowed(t, ip)
    \/ \E t \in Conns : RegisterConnection(t)
    \/ \E t \in Conns : UnregisterConnection(t)

SpecConns == InitConns /\ [][NextConns]_vars

\* the connections from an IP that are open
open_connections(ip) == {t \in Conns : net.tasks[t].at = "open" /\ net.tasks[t].ip = ip}

\* C26: at most max_connections_per_ip (3) connections from one IP are open at any
\* time, also when connection attempts run concurrently.
C26_ConnectionsPerIpWithinLimit ==
    \A ip \in Addrs : Cardinality(open_connections(ip)) <= max_connections_per_ip

(***************************************************************************)
(* The peer link of the node binary (src/network.rs, src/main.rs): frames  *)
(* of a 4-byte big-endian length and a JSON payload, read by               *)
(* NetworkClient::receive_message in the loop of handle_peer.              *)
(***************************************************************************)
MAX_MESSAGE_SIZE == 33554432
MaxDelivered == 4     \* messages handle_peer takes from one link

\* the length a frame header announces
FrameLengths == {4, MAX_MESSAGE_SIZE, MAX_MESSAGE_SIZE + 1}

\* what a peer puts on the stream: the announced length, whether that many bytes
\* follow, and the message the bytes decode to (serde_json accepts a document that
\* is padded with whitespace; "garbage" does not decode)
Frames ==
    [length : FrameLengths, complete : BOOLEAN, message : {"Hello", "Ping", "GetHeight", "garbage"}]

\* NetworkClient::receive_message: read_exact of the length, vec![0u8; length],
\* read_exact of the payload, serde_json::from_slice
receive_message(frame) ==
    IF ~frame.complete THEN [res |-> "unexpected end of file", message |-> ""]
    ELSE IF frame.message = "garbage" THEN [res |-> "decode error", message |-> ""]
    ELSE [res |-> "ok", message |-> frame.message]

\* the reply handle_peer and handle_network_message send for a message
reply_to(message) ==
    CASE message = "Hello" -> "HelloAck"
      [] message = "Ping" -> "Pong"
      [] message = "GetHeight" -> "Height"

InitLink ==
    /\ chainIdle
    /\ channels = [e \in {1, 2} |-> <<>>]
    /\ wire = [e \in {1, 2} |-> <<>>]
    /\ eph = 0
    /\ chlast = no_call
    /\ net = [link |-> "open", delivered |-> <<>>, replies |-> <<>>]

\* one turn of the loop of handle_peer: receive_message, then the handler of the
\* message; an error ends the loop and the peer is disconnected
HandlePeerFrame(frame) ==
    /\ net.link = "open"
    /\ Len(net.delivered) < MaxDelivered
    /\ LET o == receive_message(frame)
       IN /\ net' = IF o.res = "ok"
                    THEN [net EXCEPT !.delivered = Append(@, o.message),
                                     !.replies = Append(@, reply_to(o.message))]
                    ELSE [net EXCEPT !.link = "closed"]
          /\ last' = [op |-> "receive_message", res |-> o.res, length |-> frame.length]
    /\ UNCHANGED <<chain_state, utxo_set, mempool, db, now, pc, io_errors, orphan_blocks, chanVars, mining>>

NextLink == \E frame \in Frames : HandlePeerFrame(frame)

SpecLink == InitLink /\ [][NextLink]_vars

\* C27: a frame whose header announces more than 32 MB is rejected with an error,
\* and no message of it is delivered to the handler.
C27_OversizedFrameIsRejected ==
    [][(last'.op = "receive_message" /\ last'.length > MAX_MESSAGE_SIZE)
       => (last'.res # "ok" /\ net'.delivered = net.delivered)]_vars

(***************************************************************************)
(* The genesis block of nodes that start on an empty data directory at     *)
(* different times.  mine_block overwrites the timestamp of the block with *)
(* the wall clock whenever the nonce reaches a multiple of 100000.         *)
(***************************************************************************)
MINING_TIMESTAMP_INTERVAL == 100000

\* the nodes, each with a data directory of its own
Nodes == {1, 2, 3}
\* the seconds between the start of one node and the start of the next
StartDelays == {0, 1, TARGET_BLOCK_TIME}
\* the nonce at which the hash of the genesis header first has 24 leading zero bits:
\* below the first timestamp refresh, or beyond it (for chain id 1 the double SHA-256
\* of the header with timestamp 1640995200 has at most 19 leading zero bits for the
\* nonces below 100000)
GenesisNonces == {2, MINING_TIMESTAMP_INTERVAL + 2}

\* Blockchain::mine_block on a header whose search ends at nonce found_at, on a node
\* whose clock reads clock when the nonce passes a multiple of 100000
mine_block_until(b, found_at, clock) ==
    IF found_at < MINING_TIMESTAMP_INTERVAL
    THEN [b EXCEPT !.header.nonce = found_at]
    ELSE [b EXCEPT !.header.nonce = found_at, !.header.timestamp = clock]

\* Blockchain::create_genesis_block: the state of the node after it
create_genesis_block(found_at, clock) ==
    LET genesis == mine_block_until(
                       new_block(ZeroHash, <<coinbase(ZeroAddress, INITIAL_MINING_REWARD, 0)>>,
                                 INITIAL_DIFFICULTY, 0, GENESIS_TIMESTAMP),
                       found_at, clock)
    IN CHOOSE o \in add_block_internal(genesis, FALSE, "none", new_chain_state, <<>>,
                                       empty_mempool, empty_db, clock) : TRUE

\* nodes: the chain state of each node that has started; found_at: the nonce that
\* ends the search on the genesis header, the same on every node
InitGenesis ==
    /\ chainIdle
    /\ channels = [e \in {1, 2} |-> <<>>]
    /\ wire = [e \in {1, 2} |-> <<>>]
    /\ eph = 0
    /\ chlast = no_call
    /\ \E found_at \in GenesisNonces : net = [nodes |-> <<>>, found_at |-> found_at]

\* Blockchain::new(data_dir, chain_id) on the empty data directory of node n, delay
\* seconds after the previous start
BlockchainNew(n, delay) ==
    /\ n \notin DOMAIN net.nodes
    /\ now' = now + delay
    /\ net' = [net EXCEPT !.nodes = map_put(@, n, create_genesis_block(net.found_at, now').cs)]
    /\ last' = [op |-> "new", res |-> "ok"]
    /\ UNCHANGED <<chain_state, utxo_set, mempool, db, pc, io_errors, orphan_blocks, chanVars, mining>>

NextGenesis == \E n \in Nodes, delay \in StartDelays : BlockchainNew(n, delay)

SpecGenesis == InitGenesis /\ [][NextGenesis]_vars

\* C28: any two nodes that have initialised a fresh store hold the same genesis
\* hash, whenever each of them was started.
C28_SameGenesisHash ==
    \A n, m \in DOMAIN net.nodes :
       net.nodes[n].best_block_hash = net.nodes[m].best_block_hash

(***************************************************************************)
(* Mempool capacity.  Transaction is a public struct and add_transaction   *)
(* a public method: a caller can submit a transaction whose from field is  *)
(* the zero address.  Transaction::verify returns true for it before it    *)
(* looks at the signature and the public key, and validate_transaction     *)
(* returns Ok before it looks at the UTXO set; only the data blob has a    *)
(* length check.  Mempool::add_transaction compares the number of entries  *)
(* with MEMPOOL_MAX_SIZE and adds the serialized length to size_bytes,     *)
(* which no code compares with anything.                                   *)
(***************************************************************************)
\* the lengths of a submitted signature or public_key vector
VecLengths == {0, 65, MAX_MESSAGE_SIZE}

\* transactions from the zero address, assembled field by field
ZeroSenderTxs ==
    [from : {ZeroAddress}, to : Users, amount : {0}, fee : {0}, nonce : 0..1,
     signature : VecLengths, public_key : VecLengths]

NextBytes ==
    \/ \E miner \in Users :
          AddBlock(candidate_block(miner, <<>>, "none", chain_state, db, now), "none")
    \/ \E tx \in ZeroSenderTxs : AddTransaction(tx)

SpecBytes == Init /\ [][NextBytes]_vars

RECURSIVE sum_sizes(_, _)
\* the sum of bincode::serialize(tx).len() over the mempool entries with the hashes hs
sum_sizes(mp, hs) ==
    IF hs = {} THEN 0
    ELSE LET h == CHOOSE x \in hs : TRUE
         IN tx_size(mp.transactions[h]) + sum_sizes(mp, hs \ {h})

\* C29: at every reachable state the mempool holds at most 50 000 transactions
\* (MEMPOOL_MAX_SIZE) and the serialized sizes of its transactions sum to at most
\* 100 MB (100 * 1024 * 1024 bytes).
C29_MempoolWithinCountAndBytes ==
    /\ Cardinality(DOMAIN mempool.transactions) <= MEMPOOL_MAX_SIZE
    /\ sum_sizes(mempool, DOMAIN mempool.transactions) <= 100 * 1024 * 1024

\* C30: concurrent add_block calls are serialized: of two different valid blocks
\* that two threads submit on the same tip exactly one is appended and the other is
\* rejected, as in a sequential execution of the two calls, where the second call
\* fails validate_block against the new tip.  So the block store never holds two
\* different blocks with the same parent.
C30_ConcurrentAddBlockIsSerialized ==
    \A b1, b2 \in db.blocks :
       b1.header.prev_hash = b2.header.prev_hash => b1 = b2

(***************************************************************************)
(* Lock order.  create_block_template keeps the guards it takes until it   *)
(* returns: the chain_state read guard `state`, then the mempool guard     *)
(* `mempool`; with both alive it calls calculate_next_difficulty, whose    *)
(* first statement is self.chain_state.read() again.  The steps of         *)
(* add_block_internal each take their lock for the step only; they wait    *)
(* while another thread holds the lock they need.                          *)
(***************************************************************************)
\* the locks a thread holds, in the order in which it acquired them
held(t) == IF "held" \in DOMAIN pc[t] THEN pc[t].held ELSE <<>>

holds(t, lock) == \E i \in 1..Len(held(t)) : held(t)[i] = lock

\* Mutex::lock on mempool returns: no other thread holds the mutex
mempool_free(t) == \A u \in Threads \ {t} : ~holds(u, "mempool")

\* RwLock::write on chain_state returns: no other thread holds a guard of it
chain_state_unread(t) == \A u \in Threads \ {t} : ~holds(u, "chain_state")

\* create_block_template: let state = self.chain_state.read().unwrap()
TemplateReadChainState(t, miner) ==
    /\ at(t, "idle")
    /\ chain_state.best_block_height < MaxHeight
    /\ pc' = [pc EXCEPT ![t] = [at |-> "template_lock_mempool", miner |-> miner,
                                held |-> <<"chain_state">>]]
    /\ UNCHANGED <<chain_state, utxo_set, mempool, db, now, last, io_errors, chanVars, net, orphan_blocks, mining>>

\* create_block_template: let mempool = self.mempool.lock().unwrap()
TemplateLockMempool(t) ==
    /\ at(t, "template_lock_mempool")
    /\ mempool_free(t)
    /\ pc' = [pc EXCEPT ![t] = [@ EXCEPT !.at = "template_next_difficulty",
                                         !.held = Append(@, "mempool")]]
    /\ UNCHANGED <<chain_state, utxo_set, mempool, db, now, last, io_errors, chanVars, net, orphan_blocks, mining>>

\* create_block_template: self.calculate_next_difficulty()?, which starts with
\* let state = self.chain_state.read().unwrap()
TemplateNextDifficulty(t) ==
    /\ at(t, "template_next_difficulty")
    /\ pc' = [pc EXCEPT ![t] = [@ EXCEPT !.at = "template_return",
                                         !.held = Append(@, "chain_state")]]
    /\ UNCHANGED <<chain_state, utxo_set, mempool, db, now, last, io_errors, chanVars, net, orphan_blocks, mining>>

\* create_block_template: Block::new, the timestamp and Ok(block); the guards drop
TemplateReturn(t) ==
    /\ at(t, "template_return")
    /\ pc' = [pc EXCEPT ![t] = [at |-> "idle"]]
    /\ last' = [op |-> "create_block_template", res |-> "ok",
                hash |-> block_hash(create_block_template(pc[t].miner, chain_state, db,
                                                          mempool, now))]
    /\ UNCHANGED <<chain_state, utxo_set, mempool, db, now, io_errors, chanVars, net, orphan_blocks, mining>>

NextLocks ==
    \/ \E t \in Threads, miner \in Users : TemplateReadChainState(t, miner)
    \/ \E t \in Threads : TemplateLockMempool(t)
    \/ \E t \in Threads : TemplateNextDifficulty(t)
    \/ \E t \in Threads : TemplateReturn(t)
    \/ \E t \in Threads, miner \in Users :
          BeginAddBlock(t, candidate_block(miner, <<>>, "none", chain_state, db, now))
    \/ \E t \in Threads : SaveBlock(t)
    \/ \E t \in Threads : UpdateUtxoSet(t)
    \/ \E t \in Threads : chain_state_unread(t) /\ UpdateChainState(t)
    \/ \E t \in Threads : mempool_free(t) /\ RemoveMined(t)
    \/ \E t \in Threads : SaveChainState(t)

SpecLocks == Init /\ [][NextLocks]_vars

\* C31: no thread ever acquires the chain_state lock while it holds the mempool
\* mutex: wherever one thread holds both, chain_state was acquired first, so in the
\* order of its acquisitions no chain_state follows a mempool.
C31_ChainStateBeforeMempool ==
    \A t \in Threads :
       \A i, j \in 1..Len(held(t)) :
          (i < j /\ held(t)[i] = "mempool") => held(t)[j] # "chain_state"

(***************************************************************************)
(* Properties of the manager's decrypt_message                             *)
(***************************************************************************)
\* C32: a replayed or tampered frame that the manager's decrypt_message rejects
\* never changes the keys of the receiving channel (so the next genuine frame of
\* the peer, handed over in order, still decrypts to its plaintext).
C32_RejectedFrameKeepsKeys ==
    [][(/\ chlast'.op = "decrypt"
        /\ chlast'.res # "ok"
        /\ chlast'.expected = ""
        /\ channels[chlast'.end].established)
       => /\ channels'[chlast'.end].shared_secret = channels[chlast'.end].shared_secret
          /\ channels'[chlast'.end].encryption_key = channels[chlast'.end].encryption_key
          /\ channels'[chlast'.end].mac_key = channels[chlast'.end].mac_key]_vars

(***************************************************************************)
(* The miner (src/src/mining.rs), solo mining on the local Blockchain,     *)
(* which it shares behind an RwLock with the task that adds the blocks of  *)
(* the network.  start_mining spawns the work generator, the share         *)
(* submitter and config.threads workers; only the handles of the workers   *)
(* are kept.  Jobs and shares travel over crossbeam channels, which hand   *)
(* each message to one receiver.  config.difficulty is the difficulty of   *)
(* the chain.                                                              *)
(***************************************************************************)
WORK_RESTART_TIMEOUT == 120
MIN_MINING_DIFFICULTY == 8
MAX_MINING_DIFFICULTY == 32
MaxShares == 2        \* shares the workers find
MaxMinerTicks == 1    \* times the clock passes the work-restart timeout

\* config.threads = 2
Workers == {1, 2}
\* wallet.address, and the miner of the blocks that arrive from the network
WalletAddress == 1
PeerMiner == 2

\* Miner::new
new_miner ==
    [is_mining |-> FALSE,
     started |-> FALSE,
     stopped |-> FALSE,
     controller |-> "idle",
     current_job |-> <<>>,
     work |-> <<>>,
     shares |-> <<>>,
     jobs |-> 0,
     found |-> 0,
     generator |-> [at |-> "none"],
     submitter |-> [at |-> "none"],
     workers |-> [w \in Workers |-> [at |-> "none", job |-> <<>>]],
     handed |-> {}]

\* MiningJob::new on the template the generator built; id stands for the random job_id
new_mining_job(block_template, difficulty, id, clock) ==
    [job_id |-> id, block_template |-> block_template, target_difficulty |-> difficulty,
     timestamp |-> clock]

\* MiningJob::is_stale
is_stale(job, current_time) == current_time - job.timestamp > WORK_RESTART_TIMEOUT

\* difficulty.max(MIN_MINING_DIFFICULTY).min(MAX_MINING_DIFFICULTY)
clamp_difficulty(difficulty) ==
    IF difficulty < MIN_MINING_DIFFICULTY THEN MIN_MINING_DIFFICULTY
    ELSE IF difficulty > MAX_MINING_DIFFICULTY THEN MAX_MINING_DIFFICULTY
    ELSE difficulty

\* the generator holds the read guard of the blockchain lock while it waits for
\* current_job.write(); the submitter holds a read guard of current_job while it
\* waits for blockchain.write()
blockchain_read_held == mining.generator.at = "write_job"
current_job_read_held == mining.submitter.at = "add_block"

InitMiner ==
    /\ chain_state = genesis_state.cs
    /\ utxo_set = genesis_state.utxos
    /\ mempool = genesis_state.mp
    /\ db = genesis_state.d
    /\ now = GENESIS_TIMESTAMP + TARGET_BLOCK_TIME
    /\ last = [op |-> "new", res |-> "ok"]
    /\ pc = idle
    /\ io_errors = 0
    /\ orphan_blocks = <<>>
    /\ net = no_net
    /\ channels = [e \in {1, 2} |-> <<>>]
    /\ wire = [e \in {1, 2} |-> <<>>]
    /\ eph = 0
    /\ chlast = no_call
    /\ mining = new_miner

\* Miner::start_mining: the flag, then the threads
StartMining ==
    /\ ~mining.started
    /\ mining' = [mining EXCEPT !.is_mining = TRUE,
                                !.started = TRUE,
                                !.generator = [at |-> "poll", last_block_hash |-> ZeroHash],
                                !.submitter = [at |-> "recv"],
                                !.workers = [w \in Workers |-> [at |-> "run", job |-> <<>>]]]
    /\ UNCHANGED <<chain_state, utxo_set, mempool, db, now, last, pc, io_errors, orphan_blocks, chanVars, net>>

\* start_work_generator, one pass of the loop up to current_job.write(): under
\* blockchain.read(), a template and a job when the tip is not the one of the last
\* job, sent on the work channel
GeneratorPoll ==
    /\ mining.generator.at = "poll"
    /\ IF ~mining.is_mining
       THEN mining' = [mining EXCEPT !.generator = [at |-> "done"]]
       ELSE /\ chain_state.best_block_hash # mining.generator.last_block_hash
            /\ chain_state.best_block_height < MaxHeight
            /\ LET template == create_block_template(WalletAddress, chain_state, db,
                                                     mempool, now)
                   job == new_mining_job(
                              [template EXCEPT !.header.difficulty_target =
                                                   clamp_difficulty(INITIAL_DIFFICULTY)],
                              INITIAL_DIFFICULTY, mining.jobs + 1, now)
               IN mining' = [mining EXCEPT
                                !.work = Append(@, job),
                                !.jobs = @ + 1,
                                !.generator = [at |-> "write_job", job |-> job,
                                               last_block_hash |-> @.last_block_hash]]
    /\ UNCHANGED <<chain_state, utxo_set, mempool, db, now, last, pc, io_errors, orphan_blocks, chanVars, net>>

\* start_work_generator: *current_job.write().unwrap() = Some(job), with the
\* blockchain read guard still alive; then the guard drops and the thread sleeps
GeneratorWriteJob ==
    /\ mining.generator.at = "write_job"
    /\ ~current_job_read_held
    /\ mining' = [mining EXCEPT
                     !.current_job = <<mining.generator.job>>,
                     !.generator =
                         [at |-> "poll",
                          last_block_hash |->
                              mining.generator.job.block_template.header.prev_hash]]
    /\ UNCHANGED <<chain_state, utxo_set, mempool, db, now, last, pc, io_errors, orphan_blocks, chanVars, net>>

\* start_share_submitter: the loop condition, recv_timeout and the clock
SubmitterRecv ==
    /\ mining.submitter.at = "recv"
    /\ IF ~mining.is_mining
       THEN mining' = [mining EXCEPT !.submitter = [at |-> "done"]]
       ELSE /\ mining.shares # <<>>
            /\ mining' = [mining EXCEPT
                             !.shares = Tail(@),
                             !.submitter = [at |-> "check", share |-> Head(mining.shares),
                                            current_time |-> now]]
    /\ UNCHANGED <<chain_state, utxo_set, mempool, db, now, last, pc, io_errors, orphan_blocks, chanVars, net>>

\* start_share_submitter: job_valid, under a read guard of current_job that is
\* dropped at the end of the block
SubmitterCheck ==
    /\ mining.submitter.at = "check"
    /\ LET share == mining.submitter.share
           job_valid == /\ mining.current_job # <<>>
                        /\ mining.current_job[1].job_id = share.job_id
                        /\ ~is_stale(mining.current_job[1], mining.submitter.current_time)
       IN mining' = [mining EXCEPT
                        !.submitter = IF job_valid THEN [at |-> "build", share |-> share]
                                      ELSE [at |-> "recv"]]
    /\ UNCHANGED <<chain_state, utxo_set, mempool, db, now, last, pc, io_errors, orphan_blocks, chanVars, net>>

\* start_share_submitter: current_job is read again and the block is assembled from
\* the job found there; its hash is the one the worker computed when that job is
\* the job of the share, and a hash of another header otherwise
SubmitterBuild ==
    /\ mining.submitter.at = "build"
    /\ LET share == mining.submitter.share
           job == mining.current_job[1]
           block == [job.block_template EXCEPT !.header.nonce = share.nonce,
                                               !.header.timestamp = share.timestamp]
       IN mining' = [mining EXCEPT
                        !.submitter =
                            IF /\ mining.current_job # <<>>
                               /\ job.job_id = share.job_id
                               /\ is_valid_proof_of_work(block)
                            THEN [at |-> "add_block", block |-> block, job |-> job]
                            ELSE [at |-> "recv"]]
    /\ UNCHANGED <<chain_state, utxo_set, mempool, db, now, last, pc, io_errors, orphan_blocks, chanVars, net>>

\* start_share_submitter: blockchain.write() and bc.add_block(block), with the read
\* guard of current_job still alive
SubmitterAddBlock ==
    /\ mining.submitter.at = "add_block"
    /\ ~blockchain_read_held
    /\ LET block == mining.submitter.block
       IN \E o \in add_block_internal(block, TRUE, "none", chain_state, utxo_set, mempool,
                                      db, now) :
             /\ chain_state' = o.cs
             /\ utxo_set' = o.utxos
             /\ mempool' = o.mp
             /\ db' = o.d
             /\ last' = [op |-> "add_block", res |-> o.res]
             /\ mining' = [mining EXCEPT
                              !.submitter = [at |-> "recv"],
                              !.handed = @ \cup
                                  {[stale |-> is_stale(mining.submitter.job, now),
                                    on_tip |-> block.header.prev_hash
                                               = chain_state.best_block_hash,
                                    after_stop |-> mining.stopped]}]
    /\ UNCHANGED <<now, pc, io_errors, orphan_blocks, chanVars, net>>

\* mining_worker: work_receiver.try_recv() returns a job
WorkerRecv(w) ==
    /\ mining.workers[w].at = "run"
    /\ mining.is_mining
    /\ mining.work # <<>>
    /\ mining' = [mining EXCEPT !.work = Tail(@),
                                !.workers[w].job = <<Head(mining.work)>>]
    /\ UNCHANGED <<chain_state, utxo_set, mempool, db, now, last, pc, io_errors, orphan_blocks, chanVars, net>>

\* mining_worker: a stale job is dropped; else a batch of nonces on the job, in which
\* a header that meets the target is found and sent as a share
WorkerMine(w) ==
    /\ mining.workers[w].at = "run"
    /\ mining.is_mining
    /\ mining.workers[w].job # <<>>
    /\ LET job == mining.workers[w].job[1]
           block == mine_block([job.block_template EXCEPT !.header.timestamp = now])
       IN IF is_stale(job, now)
          THEN mining' = [mining EXCEPT !.workers[w].job = <<>>]
          ELSE /\ mining.found < MaxShares
               /\ meets_difficulty_target(block, job.target_difficulty)
               /\ mining' = [mining EXCEPT
                                !.found = @ + 1,
                                !.shares = Append(@, [job_id |-> job.job_id,
                                                      nonce |-> block.header.nonce,
                                                      timestamp |-> now])]
    /\ UNCHANGED <<chain_state, utxo_set, mempool, db, now, last, pc, io_errors, orphan_blocks, chanVars, net>>

\* mining_worker: is_mining is false, the thread ends
WorkerExit(w) ==
    /\ mining.workers[w].at = "run"
    /\ ~mining.is_mining
    /\ mining' = [mining EXCEPT !.workers[w] = [at |-> "done", job |-> <<>>]]
    /\ UNCHANGED <<chain_state, utxo_set, mempool, db, now, last, pc, io_errors, orphan_blocks, chanVars, net>>

\* Miner::stop_mining: is_mining.store(false)
StopSignal ==
    /\ mining.is_mining
    /\ mining.controller = "idle"
    /\ mining' = [mining EXCEPT !.is_mining = FALSE, !.controller = "joining"]
    /\ UNCHANGED <<chain_state, utxo_set, mempool, db, now, last, pc, io_errors, orphan_blocks, chanVars, net>>

\* Miner::stop_mining: every handle of mining_threads is joined, and the call returns
StopReturn ==
    /\ mining.controller = "joining"
    /\ \A w \in Workers : mining.workers[w].at = "done"
    /\ mining' = [mining EXCEPT !.stopped = TRUE, !.controller = "idle"]
    /\ UNCHANGED <<chain_state, utxo_set, mempool, db, now, last, pc, io_errors, orphan_blocks, chanVars, net>>

\* the clock passes the work-restart timeout
MinerTick ==
    /\ now < GENESIS_TIMESTAMP + TARGET_BLOCK_TIME + MaxMinerTicks * (WORK_RESTART_TIMEOUT + 1)
    /\ now' = now + WORK_RESTART_TIMEOUT + 1
    /\ UNCHANGED <<chain_state, utxo_set, mempool, db, last, pc, io_errors, orphan_blocks, chanVars, net, mining>>

NextMiner ==
    \/ StartMining
    \/ GeneratorPoll
    \/ GeneratorWriteJob
    \/ SubmitterRecv
    \/ SubmitterCheck
    \/ SubmitterBuild
    \/ SubmitterAddBlock
    \/ \E w \in Workers : WorkerRecv(w)
    \/ \E w \in Workers : WorkerMine(w)
    \/ \E w \in Workers : WorkerExit(w)
    \/ StopSignal
    \/ StopReturn
    \/ MinerTick
    \/ /\ ~blockchain_read_held
       /\ AddBlock(candidate_block(PeerMiner, <<>>, "none", chain_state, db, now), "none")

SpecMiner == InitMiner /\ [][NextMiner]_vars

\* C34: the share submitter never hands the consensus engine a block built from a
\* job that is older than the work-restart timeout (120 s) or whose parent is no
\* longer the chain tip.
C34_NoStaleBlockHandedOver ==
    \A h \in mining.handed : ~h.stale /\ h.on_tip

\* the threads of the miner run whenever they can: the scheduler starves none
SpecMinerLive ==
    /\ SpecMiner
    /\ WF_vars(GeneratorPoll)
    /\ WF_vars(GeneratorWriteJob)
    /\ WF_vars(SubmitterRecv)
    /\ WF_vars(SubmitterCheck)
    /\ WF_vars(SubmitterBuild)
    /\ WF_vars(SubmitterAddBlock)
    /\ \A w \in Workers : WF_vars(WorkerRecv(w)) /\ WF_vars(WorkerMine(w)) /\ WF_vars(WorkerExit(w))

\* the job a worker is searching, 0 when it has none
worker_job_id(w) ==
    IF mining.workers[w].job = <<>> THEN 0 ELSE mining.workers[w].job[1].job_id

\* the job the generator published last, 0 before the first
current_job_id == IF mining.current_job = <<>> THEN 0 ELSE mining.current_job[1].job_id

\* the job the generator published last is the job for the present tip
job_is_fresh ==
    /\ mining.current_job # <<>>
    /\ mining.current_job[1].block_template.header.prev_hash = chain_state.best_block_hash

\* C35: after the chain tip advances, every one of the worker threads eventually
\* receives the fresh job (and so stops searching nonces for the previous one):
\* once the generator has published the job j for the present tip, every worker
\* comes to hold job j, unless mining stops or the tip advances again first.
C35_EveryWorkerGetsFreshJob ==
    \A w \in Workers, j \in 1..MaxHeight :
       (mining.is_mining /\ job_is_fresh /\ current_job_id = j)
          ~> (~mining.is_mining \/ ~job_is_fresh \/ current_job_id # j
              \/ worker_job_id(w) = j)

\* C36: the work generator and the share submitter never block each other forever:
\* in no state does the generator wait for current_job.write() with the blockchain
\* read guard in its hands while the submitter waits for blockchain.write() with a
\* current_job read guard in its hands.
C36_GeneratorAndSubmitterNeverDeadlock ==
    ~(blockchain_read_held /\ current_job_read_held)

\* C37: after stop_mining has returned, the workers, the work generator and the
\* share submitter have terminated, and no block is handed to the consensus engine
\* any more.
C37_AllThreadsEndedAfterStop ==
    mining.stopped =>
       /\ mining.generator.at = "done"
       /\ mining.submitter.at = "done"
       /\ \A w \in Workers : mining.workers[w].at = "done"
       /\ \A h \in mining.handed : ~h.after_stop

\* ---------------------------------------------------------------------------
\* Connection counts: every way a connection is dropped
\* ---------------------------------------------------------------------------

InitCounts ==
    /\ chainIdle
    /\ channels = [e \in {1, 2} |-> <<>>]
    /\ wire = [e \in {1, 2} |-> <<>>]
    /\ eph = 0
    /\ chlast = no_call
    /\ net = [csm |-> new_connection_security_manager,
              tasks |-> [t \in Conns |-> [at |-> "idle", ip |-> 0]],
              sweep |-> {}]

\* disconnect_ip_connections(ip), its first half: the addresses of the IP are
\* collected under the read lock, which is released before the loop
DisconnectIpConnections(ip) ==
    /\ net.sweep = {}
    /\ {a \in net.csm.active_connections : a[1] = ip} # {}
    /\ net' = [net EXCEPT !.sweep = {a \in net.csm.active_connections : a[1] = ip}]
    /\ last' = [op |-> "disconnect_ip_connections", res |-> "ok"]
    /\ UNCHANGED <<chain_state, utxo_set, mempool, db, now, pc, io_errors, orphan_blocks, chanVars, mining>>

\* cleanup_expired_data, its last part: the connections without activity for 30
\* minutes are collected under the read lock, which is released before the loop
CleanupExpiredData ==
    /\ net.sweep = {}
    /\ \E inactive_connections \in SUBSET net.csm.active_connections :
        /\ inactive_connections # {}
        /\ net' = [net EXCEPT !.sweep = inactive_connections]
    /\ last' = [op |-> "cleanup_expired_data", res |-> "ok"]
    /\ UNCHANGED <<chain_state, utxo_set, mempool, db, now, pc, io_errors, orphan_blocks, chanVars, mining>>

\* one round of the loop of either: unregister_connection(addr) for a collected
\* address; the link of the task is not touched
SweepUnregister ==
    /\ \E addr \in net.sweep :
        net' = [net EXCEPT !.csm = unregister_connection(@, addr),
                           !.sweep = @ \ {addr}]
    /\ last' = [op |-> "unregister_connection", res |-> "ok"]
    /\ UNCHANGED <<chain_state, utxo_set, mempool, db, now, pc, io_errors, orphan_blocks, chanVars, mining>>

\* P2PNetwork::cleanup_stale_connections drops the peer and its connection; no
\* counter is touched
DropStaleConnection(t) ==
    /\ net.tasks[t].at = "open"
    /\ net' = [net EXCEPT !.tasks[t] = [at |-> "idle", ip |-> 0]]
    /\ last' = [op |-> "cleanup_stale_connections", res |-> "ok"]
    /\ UNCHANGED <<chain_state, utxo_set, mempool, db, now, pc, io_errors, orphan_blocks, chanVars, mining>>

\* the tasks that open connections while connections are swept
CountedConns == {1, 2}

NextCounts ==
    \/ \E t \in CountedConns, ip \in Addrs : CheckConnectionAllowed(t, ip)
    \/ \E t \in CountedConns : RegisterConnection(t)
    \/ \E t \in CountedConns : UnregisterConnection(t)
    \/ \E ip \in Addrs : DisconnectIpConnections(ip)
    \/ CleanupExpiredData
    \/ SweepUnregister
    \/ \E t \in CountedConns : DropStaleConnection(t)

SpecCounts == InitCounts /\ [][NextCounts]_vars

\* C38: for every IP the tracked connection count equals the number of open
\* connections from that IP, whichever way connections were dropped (close,
\* stale, ban, cleanup).
C38_CountEqualsOpenConnections ==
    \A ip \in Addrs :
        counter_of(net.csm.ip_connection_count, ip) = Cardinality(open_connections(ip))

\* ---------------------------------------------------------------------------
\* Circulating supply against the UTXO index
\* ---------------------------------------------------------------------------

\* C39: after every accepted block, circulating_supply equals the sum of the
\* amounts of all entries of the UTXO index.
C39_SupplyEqualsUtxoTotal ==
    (last.op = "add_block" /\ last.res = "ok")
        => chain_state.circulating_supply = sum_amounts(utxo_set, DOMAIN utxo_set)

\* ---------------------------------------------------------------------------
\* The indexes of the mempool
\* ---------------------------------------------------------------------------

\* the transactions offered to the mempool: four of one sender with two fee rates,
\* one of another sender, and one hash of the zero address serialized in three sizes
IndexTxs ==
    PoolTxs
    \cup {tx \in UserTxs : tx.from = 2 /\ tx.to = 1 /\ tx.fee = 1990}
    \cup {tx \in ZeroSenderTxs : tx.to = 1 /\ tx.nonce = 0 /\ tx.public_key = 0}

\* Mempool::add_transaction called on the mempool
MempoolAddTransaction(tx) ==
    /\ \E o \in mempool_add_transaction(mempool, tx) :
          /\ mempool' = o.mp
          /\ last' = [op |-> "mempool_add_transaction", res |-> o.res]
    /\ UNCHANGED <<chain_state, utxo_set, db, now, pc, io_errors, chanVars, net, orphan_blocks, mining>>

\* Mempool::remove_transaction called on the mempool, for a hash it holds or not
MempoolRemoveTransaction(h) ==
    /\ mempool' = mempool_remove_transaction(mempool, h)
    /\ last' = [op |-> "mempool_remove_transaction",
                res |-> IF h \in DOMAIN mempool.transactions THEN "ok" ELSE "absent"]
    /\ UNCHANGED <<chain_state, utxo_set, db, now, pc, io_errors, chanVars, net, orphan_blocks, mining>>

NextIndex ==
    \/ \E tx \in IndexTxs : MempoolAddTransaction(tx)
    \/ \E tx \in IndexTxs : MempoolRemoveTransaction(tx_hash(tx))

SpecIndex == Init /\ [][NextIndex]_vars

\* the hashes of the fee-ordered sequence and of the lists of the senders
fee_index_hashes(mp) == {mp.by_fee_rate[i][2] : i \in 1..Len(mp.by_fee_rate)}
sender_index_hashes(mp) ==
    UNION {{mp.by_sender[a][i] : i \in 1..Len(mp.by_sender[a])} : a \in DOMAIN mp.by_sender}

\* C40: after any sequence of add_transaction and remove_transaction calls the
\* txids of the transaction map are the txids of the fee-ordered sequence, each
\* exactly once, and the union of the per-sender lists, and size_bytes is the sum
\* of the serialized sizes of the stored transactions.
C40_IndexesAgree ==
    LET txids == DOMAIN mempool.transactions
    IN /\ fee_index_hashes(mempool) = txids
       /\ Len(mempool.by_fee_rate) = Cardinality(txids)
       /\ sender_index_hashes(mempool) = txids
       /\ mempool.size_bytes = sum_sizes(mempool, txids)

\* a transaction was removed from between others: its sender keeps another one,
\* and an entry of the same fee rate stays in the sequence
C40_RemovedFromAmongOthers ==
    /\ last.op = "mempool_remove_transaction"
    /\ last.res = "ok"
    /\ \E a \in DOMAIN mempool.by_sender : Len(mempool.by_sender[a]) >= 2
    /\ Cardinality(DOMAIN mempool.transactions) >= 3
    /\ mempool.size_bytes > 3 * SIGNED_TX_BYTES

====
